---- MODULE Spec2Model ----
(***************************************************************************)
(* Selection synchronisation of Coral.Select                               *)
(* (src/coralui-component-select/src/scripts/Select.js).                   *)
(*                                                                         *)
(* The component state is kept in the variables below.  Every handler of   *)
(* Select.js is an operator from a state record to a state record, so that *)
(* the synchronous, nested event dispatch of the DOM (an attribute change  *)
(* on an item runs _onItemSelectedChange before setAttribute returns) is   *)
(* function application.  An action applies one top-level handler to the   *)
(* current state and installs the result.  A state record has, besides    *)
(* the variables, the fields depth, overflow, changes, hides, threw,       *)
(* focusButton and trace, which describe the run of the handler: they are  *)
(* cleared when a top-level handler starts and are not part of the state.  *)
(***************************************************************************)
EXTENDS Integers, Sequences, FiniteSets, TLC

\* ---------------------------------------------------------------- bounds
NItems == 2
MaxDepth == NItems + 2
MaxInitial == 2
MaxValues == 2

Ids == 1..NItems
EntryIds == 1..(NItems + 1)
Vals == {"", "a"}
NoValue == "zz"
PlaceholderText == "p"

VARIABLES
  items,          \* the item collection, in DOM order (sequence of item ids)
  selected,       \* item -> its selected attribute
  disabled,       \* item -> its disabled attribute
  value,          \* item -> its value
  multiple,       \* this._multiple / the multiple attribute
  placeholder,    \* this._placeholder / the placeholder attribute
  input,          \* this._elements.input.value
  label,          \* this._elements.label content
  loading,        \* this._elements.list.loading
  bulk,           \* this._bulkSelectionChange
  overlayOpen,    \* this._elements.overlay.open
  liOf,           \* item -> item._selectListItem (0: undefined)
  li,             \* popup-list entries
  noOf,           \* item -> item._nativeOption (0: undefined)
  no,             \* native options
  tagOf,          \* item -> item._tag exists
  taglist,        \* the tags attached to the tag list, by item, in tag order
  initialValues,  \* this._initialValues
  connected,      \* the component is attached to a document
  everConnected,  \* connectedCallback ran at least once
  firstSnapshot,  \* the values selected when connectedCallback first returned
  useNative,      \* this._useNativeInput
  handled,        \* the items the collection has reported to the component
  taglistChild,   \* this._elements.taglist is a child of the component
  selOrder,       \* the selected items of the collection, the most recently selected last
  selectDisabled, \* this._disabled of the Select
  commons         \* a call of a utility of Coral.commons and what it has done so far

\* the state of the Select
selectVars == <<items, selected, disabled, value, multiple, placeholder, input, label,
                loading, bulk, overlayOpen, liOf, li, noOf, no, tagOf, taglist,
                initialValues, connected, everConnected, firstSnapshot, useNative,
                handled, taglistChild, selOrder, selectDisabled>>

vars == <<selectVars, commons>>

\* no utility of Coral.commons is being called
NoCommons == [op |-> "none"]

\* ------------------------------------------------------- sequence helpers
RECURSIVE SeqFilter(_, _)
SeqFilter(seq, S) ==
  IF seq = <<>> THEN <<>>
  ELSE IF Head(seq) \in S THEN <<Head(seq)>> \o SeqFilter(Tail(seq), S)
       ELSE SeqFilter(Tail(seq), S)

Range(seq) == {seq[k] : k \in 1..Len(seq)}

IndexOf(seq, x) ==
  IF x \in Range(seq) THEN CHOOSE k \in 1..Len(seq) : seq[k] = x /\ \A j \in 1..(k-1) : seq[j] # x
  ELSE 0

RemoveAt(seq, k) == [j \in 1..(Len(seq) - 1) |-> IF j < k THEN seq[j] ELSE seq[j + 1]]

RECURSIVE SetToSeq(_)
SetToSeq(S) ==
  IF S = {} THEN <<>>
  ELSE LET m == CHOOSE x \in S : \A y \in S : x <= y IN <<m>> \o SetToSeq(S \ {m})

\* a faulty variant, for comparison: the test of the filter is inverted
arrayDiff_Common(a, b) == SeqFilter(a, Range(b))

\* arrayDiff(a, b): the elements of a that are not in b, in the order of a
arrayDiff(a, b) == SeqFilter(a, Range(a) \ Range(b))

\* ------------------------------------------------------------- the state
\* the state a top-level handler starts from
Fresh ==
  [items |-> items, selected |-> selected, disabled |-> disabled, value |-> value,
   multiple |-> multiple, placeholder |-> placeholder, input |-> input, label |-> label,
   bulk |-> bulk, overlayOpen |-> overlayOpen, liOf |-> liOf, li |-> li, noOf |-> noOf,
   no |-> no, tagOf |-> tagOf, taglist |-> taglist, initialValues |-> initialValues,
   connected |-> connected, everConnected |-> everConnected,
   firstSnapshot |-> firstSnapshot, useNative |-> useNative, handled |-> handled,
   taglistChild |-> taglistChild, selOrder |-> selOrder, loading |-> loading,
   selectDisabled |-> selectDisabled,
   shows |-> <<>>,         \* coral-select:showitems notifications fired
   focusButton |-> FALSE,  \* the handler moved the focus to the button
   depth |-> 0,            \* invocations of _onItemSelectedChange that have not returned
   overflow |-> FALSE,     \* the handlers nested deeper than MaxDepth
   changes |-> 0,          \* change notifications fired
   hides |-> 0,            \* coral-select:hideitems notifications fired
   threw |-> FALSE,        \* the handler raised
   trace |-> <<>>]         \* the steps of the handler

Install(s) ==
  /\ items' = s.items /\ selected' = s.selected /\ disabled' = s.disabled
  /\ value' = s.value /\ multiple' = s.multiple /\ placeholder' = s.placeholder
  /\ input' = s.input /\ label' = s.label /\ bulk' = s.bulk
  /\ overlayOpen' = s.overlayOpen /\ liOf' = s.liOf /\ li' = s.li
  /\ noOf' = s.noOf /\ no' = s.no /\ tagOf' = s.tagOf /\ taglist' = s.taglist
  /\ initialValues' = s.initialValues /\ connected' = s.connected
  /\ everConnected' = s.everConnected /\ firstSnapshot' = s.firstSnapshot
  /\ useNative' = s.useNative
  /\ handled' = s.handled /\ taglistChild' = s.taglistChild
  /\ selOrder' = s.selOrder /\ loading' = s.loading
  /\ selectDisabled' = s.selectDisabled
  /\ commons' = commons

\* the program state of s, without the history of the running handler
Core(s) == [s EXCEPT !.depth = 0, !.overflow = FALSE, !.changes = 0, !.hides = 0,
                     !.shows = <<>>,
                     !.threw = FALSE, !.trace = <<>>, !.focusButton = FALSE]

NumSelected(s) == Cardinality({j \in Range(s.items) : s.selected[j]})

\* a trace entry: what happened (ev), to which item, how many items of the
\* collection were selected and the value of the flag at that moment, and for
\* a handler whether it changed the program state or fired a notification
Step(ev, i, s, b, eff) ==
  [ev |-> ev, item |-> i, nsel |-> NumSelected(s), bulk |-> b, single |-> ~s.multiple,
   effect |-> eff]

Log(s, ev, i) == [s EXCEPT !.trace = Append(@, Step(ev, i, s, s.bulk, FALSE))]

\* the entry of a handler that was entered in state s0 and returned in state s
LogHandler(s0, s, ev, i) ==
  [s EXCEPT !.trace = Append(@, Step(ev, i, s, s0.bulk,
       Core(s) # Core(s0) \/ s.changes # s0.changes \/ s.hides # s0.hides))]

\* LET z == v IN F(z), with v evaluated once
Let(v, F(_)) == CHOOSE y \in {F(z) : z \in {v}} : TRUE

\* the statements F that follow a call which returned state v: skipped when the
\* call raised
Then(v, F(_)) == CHOOSE y \in {IF z.threw THEN z ELSE F(z) : z \in {v}} : TRUE

Throw(s) == [s EXCEPT !.threw = TRUE]

\* ------------------------------------------- SelectableCollection (items)
getAllSelected(s) == SeqFilter(s.items, {i \in Ids : s.selected[i]})

getFirstSelected(s) == IF getAllSelected(s) = <<>> THEN 0 ELSE Head(getAllSelected(s))

getLastSelected(s) ==
  IF getAllSelected(s) = <<>> THEN 0 ELSE getAllSelected(s)[Len(getAllSelected(s))]

getFirstSelectable(s) ==
  LET c == SeqFilter(s.items, {i \in Ids : ~s.disabled[i]}) IN IF c = <<>> THEN 0 ELSE Head(c)

\* get selectedItem
selectedItem(s) == IF s.multiple THEN getFirstSelected(s) ELSE getLastSelected(s)

\* get selectedItems
selectedItems(s) ==
  IF s.multiple THEN getAllSelected(s)
  ELSE IF selectedItem(s) = 0 THEN <<>> ELSE <<selectedItem(s)>>


\* ------------------------------------------------------- the three views
\* (content: the item whose innerHTML the entry shows, 0 for none)
FreeEntry == [item |-> 0, attached |-> FALSE, selected |-> FALSE, hidden |-> FALSE,
              value |-> "", disabled |-> FALSE, content |-> 0]

FreeOption == [item |-> 0, attached |-> FALSE, selected |-> FALSE, value |-> "",
               disabled |-> FALSE, defaultSelected |-> FALSE, content |-> 0]

\* new Coral.SelectList.Item(), for item i: an object that is not in use.  The
\* new object is named i when that name is not in use, so that two runs which
\* differ only in the names of the objects reach the same state.
UnusedListItems(s) == {e \in EntryIds : s.li[e] = FreeEntry /\ \A j \in Ids : s.liOf[j] # e}

NewListItem(s, i) ==
  IF i \in UnusedListItems(s) THEN i
  ELSE CHOOSE e \in UnusedListItems(s) : \A f \in UnusedListItems(s) : e <= f

\* new Option(), for item i
UnusedOptions(s) == {o \in EntryIds : s.no[o] = FreeOption /\ \A j \in Ids : s.noOf[j] # o}

NewOption(s, i) ==
  IF i \in UnusedOptions(s) THEN i
  ELSE CHOOSE o \in UnusedOptions(s) : \A f \in UnusedOptions(s) : o <= f

\* the entries of the popup list that are selected, in list order
ListSelection(s) == SetToSeq({e \in EntryIds : s.li[e].attached /\ s.li[e].selected})

\* the :checked options of the native control
CheckedOptions(s) == SetToSeq({o \in EntryIds : s.no[o].attached /\ s.no[o].selected})

\* taglist.values
TagValues(s) == [k \in 1..Len(s.taglist) |-> s.value[s.taglist[k]]]

\* _addTagToTagList(item)
addTagToTagList(s, i) ==
  [s EXCEPT !.tagOf[i] = TRUE,
            !.taglist = Append(SeqFilter(@, Ids \ {i}), i)]

\* a faulty variant, for comparison: the tag stays in the tag list
removeTagFromTagList_Keeps(s, i, destroy) == s

\* _removeTagFromTagList(item, destroy)
removeTagFromTagList(s, i, destroy) ==
  IF s.tagOf[i]
  THEN [s EXCEPT !.taglist = SeqFilter(@, Ids \ {i}),
                 !.tagOf[i] = IF destroy THEN FALSE ELSE @]
  ELSE s

\* a faulty variant, for comparison: a new list entry is made on every call
onItemAdded_AlwaysNew(s, i) ==
  Let(NewListItem(s, i), LAMBDA e :
  Let(IF s.noOf[i] # 0 THEN s.noOf[i] ELSE NewOption(s, i), LAMBDA o :
  Let([s EXCEPT
         !.li[e] = [@ EXCEPT !.attached = TRUE, !.value = s.value[i], !.content = i,
                             !.disabled = s.disabled[i], !.selected = s.selected[i]],
         !.no[o] = [@ EXCEPT !.attached = TRUE,
                             !.defaultSelected =
                                IF s.value[i] \in Range(s.initialValues) THEN TRUE ELSE @,
                             !.selected = s.selected[i], !.value = s.value[i],
                             !.disabled = s.disabled[i], !.content = i]], LAMBDA s1 :
  Let(IF s1.multiple
      THEN IF s1.selected[i]
           THEN addTagToTagList([s1 EXCEPT !.li[e].hidden = TRUE], i)
           ELSE s1
      ELSE IF s1.selected[i] THEN [s1 EXCEPT !.input = s1.value[i]] ELSE s1, LAMBDA s2 :
  [s2 EXCEPT !.liOf[i] = e, !.noOf[i] = o, !.li[e].item = i, !.no[o].item = i]))))

\* a faulty variant, for comparison: the new entries do not learn the item's value
onItemAdded_NoValue(s, i) ==
  Let(IF s.liOf[i] # 0 THEN s.liOf[i] ELSE NewListItem(s, i), LAMBDA e :
  Let(IF s.noOf[i] # 0 THEN s.noOf[i] ELSE NewOption(s, i), LAMBDA o :
  Let([s EXCEPT
         !.li[e] = [@ EXCEPT !.attached = TRUE, !.content = i,
                             !.disabled = s.disabled[i], !.selected = s.selected[i]],
         !.no[o] = [@ EXCEPT !.attached = TRUE,
                             !.defaultSelected =
                                IF s.value[i] \in Range(s.initialValues) THEN TRUE ELSE @,
                             !.selected = s.selected[i],
                             !.disabled = s.disabled[i], !.content = i]], LAMBDA s1 :
  Let(IF s1.multiple
      THEN IF s1.selected[i]
           THEN addTagToTagList([s1 EXCEPT !.li[e].hidden = TRUE], i)
           ELSE s1
      ELSE IF s1.selected[i] THEN [s1 EXCEPT !.input = s1.value[i]] ELSE s1, LAMBDA s2 :
  [s2 EXCEPT !.liOf[i] = e, !.noOf[i] = o, !.li[e].item = i, !.no[o].item = i]))))

\* _onItemAdded(item)
onItemAdded(s, i) ==
  Let(IF s.liOf[i] # 0 THEN s.liOf[i] ELSE NewListItem(s, i), LAMBDA e :
  Let(IF s.noOf[i] # 0 THEN s.noOf[i] ELSE NewOption(s, i), LAMBDA o :
  Let([s EXCEPT
         !.li[e] = [@ EXCEPT !.attached = TRUE, !.value = s.value[i], !.content = i,
                             !.disabled = s.disabled[i], !.selected = s.selected[i]],
         !.no[o] = [@ EXCEPT !.attached = TRUE,
                             !.defaultSelected =
                                IF s.value[i] \in Range(s.initialValues) THEN TRUE ELSE @,
                             !.selected = s.selected[i], !.value = s.value[i],
                             !.disabled = s.disabled[i], !.content = i]], LAMBDA s1 :
  Let(IF s1.multiple
      THEN IF s1.selected[i]
           THEN addTagToTagList([s1 EXCEPT !.li[e].hidden = TRUE], i)
           ELSE s1
      ELSE IF s1.selected[i] THEN [s1 EXCEPT !.input = s1.value[i]] ELSE s1, LAMBDA s2 :
  [s2 EXCEPT !.liOf[i] = e, !.noOf[i] = o, !.li[e].item = i, !.no[o].item = i]))))

\* a faulty variant, for comparison: the native option is left in place
onItemRemoved_KeepsOption(s, i) ==
  Let(IF s.liOf[i] # 0
      THEN [s EXCEPT !.li[s.liOf[i]] = FreeEntry, !.liOf[i] = 0]
      ELSE s, LAMBDA s1 :
  removeTagFromTagList(s1, i, TRUE))

\* _onItemRemoved(item)
onItemRemoved(s, i) ==
  Let(IF s.liOf[i] # 0
      THEN [s EXCEPT !.li[s.liOf[i]] = FreeEntry, !.liOf[i] = 0]
      ELSE s, LAMBDA s1 :
  Let(IF s1.noOf[i] # 0
      THEN [s1 EXCEPT !.no[s1.noOf[i]] = FreeOption, !.noOf[i] = 0]
      ELSE s1, LAMBDA s2 :
  removeTagFromTagList(s2, i, TRUE)))

\* _hideOptions()
hideOptions(s) == [s EXCEPT !.overlayOpen = FALSE, !.hides = @ + 1]

\* a faulty variant, for comparison: the loading indicator ignores the listener
showOptions_NeverLoading(s, checkAvailableSpace, nearBottom, prevented) ==
  IF checkAvailableSpace /\ ~nearBottom THEN s
  ELSE [s EXCEPT !.overlayOpen = IF s.useNative THEN @ ELSE TRUE,
                 !.shows = Append(@, [start |-> Len(s.items), prevented |-> prevented]),
                 !.loading = IF s.useNative THEN @ ELSE FALSE]

\* _showOptions(checkAvailableSpace): nearBottom says whether the list is scrolled
\* to within the threshold of its end, prevented whether a listener of
\* coral-select:showitems called preventDefault()
showOptions(s, checkAvailableSpace, nearBottom, prevented) ==
  IF checkAvailableSpace /\ ~nearBottom THEN s
  ELSE [s EXCEPT !.overlayOpen = IF s.useNative THEN @ ELSE TRUE,
                 !.shows = Append(@, [start |-> Len(s.items), prevented |-> prevented]),
                 !.loading = IF s.useNative THEN @ ELSE prevented]

\* this.trigger('change')
triggerChange(s) == [s EXCEPT !.changes = @ + 1]

\* ----------------------------------------------- the selection synchroniser
\* An attribute change on an item of the collection dispatches
\* coral-select-item:_selectedchanged, which _onItemSelectedChange handles before
\* the attribute call returns; a change of the selected flag of a popup-list
\* entry dispatches coral-selectlist:change in the same way.
RECURSIVE onItemSelectedChange(_, _)
RECURSIVE onSelectListChange(_, _, _, _)

LabelPlaceholder == [kind |-> "placeholder", item |-> 0]
LabelGeneric == [kind |-> "generic", item |-> 0]
LabelEmpty == [kind |-> "empty", item |-> 0]
LabelItem(i) == [kind |-> "item", item |-> i]

\* the selected attribute of item i was written: selOrder follows
Selected(s, i) ==
  [s EXCEPT !.selOrder = IF s.selected[i] /\ i \in Range(s.items)
                         THEN Append(SeqFilter(@, Ids \ {i}), i)
                         ELSE SeqFilter(@, Ids \ {i})]

\* the attribute was written: the event reaches the component when the item is
\* one of its children
Dispatch(s, i) == IF i \in Range(s.items) THEN onItemSelectedChange(s, i) ELSE s

\* item.setAttribute('selected', '')
setSelectedAttribute(s, i) ==
  IF s.threw THEN s
  ELSE Dispatch(Log(Selected([s EXCEPT !.selected[i] = TRUE], i), "attr", i), i)

\* item.removeAttribute('selected')
removeSelectedAttribute(s, i) ==
  IF s.threw \/ ~s.selected[i] THEN s
  ELSE Dispatch(Log(Selected([s EXCEPT !.selected[i] = FALSE], i), "attr", i), i)

\* item.selected = v
setSelectedProperty(s, i, v) ==
  IF s.threw THEN s
  ELSE Dispatch(Log(Selected([s EXCEPT !.selected[i] = v], i), "attr", i), i)

\* listItem.selected = v, on an entry of the popup list
listEntrySetSelected(s, e, v) ==
  IF s.li[e].selected = v THEN s
  ELSE onSelectListChange([s EXCEPT !.li[e].selected = v], ListSelection(s),
                          ListSelection([s EXCEPT !.li[e].selected = v]), FALSE)

\* SelectableCollection._deselectAllExcept(item), over the items selected at the call
RECURSIVE deselectEach(_, _, _)
deselectEach(s, seq, keep) ==
  IF seq = <<>> \/ s.threw THEN s
  ELSE deselectEach(IF Head(seq) = keep THEN s ELSE removeSelectedAttribute(s, Head(seq)),
                    Tail(seq), keep)

deselectAllExcept(s, keep) == deselectEach(s, getAllSelected(s), keep)

deselectAllExceptLast(s) == deselectEach(s, getAllSelected(s), getLastSelected(s))

\* _onItemSelected(item) and _onItemDeselected(item): the item lacks its views
lacksListItem(s, i) == s.liOf[i] = 0 \/ ~s.li[s.liOf[i]].attached

\* item._nativeOption.selected = v
optionSetSelected(s, i, v) ==
  IF s.noOf[i] = 0 THEN Throw(s) ELSE [s EXCEPT !.no[s.noOf[i]].selected = v]

\* _onItemSelected(item)
onItemSelected(s, i) ==
  Then(IF lacksListItem(s, i) THEN onItemAdded(s, i) ELSE s, LAMBDA s1 :
  Then(listEntrySetSelected(s1, s1.liOf[i], TRUE), LAMBDA s2 :
  Then(optionSetSelected(s2, i, TRUE), LAMBDA s3 :
  IF s3.multiple
  THEN [addTagToTagList(s3, i) EXCEPT !.li[s3.liOf[i]].hidden = TRUE]
  ELSE [s3 EXCEPT !.input = s3.value[i]])))

\* a faulty variant, for comparison: the entry of a deselected item stays hidden
onItemDeselected_StaysHidden(s, i) ==
  Then(IF lacksListItem(s, i) THEN onItemAdded(s, i) ELSE s, LAMBDA s1 :
  Then(listEntrySetSelected(s1, s1.liOf[i], FALSE), LAMBDA s2 :
  Then(optionSetSelected(s2, i, FALSE), LAMBDA s3 :
  IF s3.multiple THEN removeTagFromTagList(s3, i, FALSE) ELSE s3)))

\* _onItemDeselected(item)
onItemDeselected(s, i) ==
  Then(IF lacksListItem(s, i) THEN onItemAdded(s, i) ELSE s, LAMBDA s1 :
  Then(listEntrySetSelected(s1, s1.liOf[i], FALSE), LAMBDA s2 :
  Then(optionSetSelected(s2, i, FALSE), LAMBDA s3 :
  IF s3.multiple
  THEN [removeTagFromTagList(s3, i, FALSE) EXCEPT !.li[s3.liOf[i]].hidden = FALSE]
  ELSE s3)))

\* set placeholder(value), case 4: no placeholder, single, no selected item
selectFirstSelectable(s) ==
  Let(getFirstSelectable(s), LAMBDA placeholderItem :
  IF placeholderItem # 0
  THEN Then(setSelectedAttribute(s, placeholderItem), LAMBDA s1 :
       [s1 EXCEPT !.label = LabelItem(placeholderItem)])
  ELSE [s EXCEPT !.label = LabelEmpty])

\* a faulty variant, for comparison: case 4 does not ask whether an item is selected
setPlaceholder_AlwaysSelects(s, v) ==
  Then([s EXCEPT !.placeholder = v], LAMBDA s1 :
  IF v # "" /\ (s1.multiple \/ selectedItem(s1) = 0)
  THEN [s1 EXCEPT !.label = LabelPlaceholder]
  ELSE IF s1.multiple
  THEN [s1 EXCEPT !.label = LabelGeneric]
  ELSE selectFirstSelectable([s1 EXCEPT !.input = ""]))

\* a faulty variant, for comparison: the placeholder is not shown in multiple mode
setPlaceholder_GenericInMultiple(s, v) ==
  Then([s EXCEPT !.placeholder = v], LAMBDA s1 :
  IF s1.multiple
  THEN [s1 EXCEPT !.label = LabelGeneric]
  ELSE IF v # "" /\ selectedItem(s1) = 0
  THEN [s1 EXCEPT !.label = LabelPlaceholder]
  ELSE IF selectedItem(s1) = 0
  THEN selectFirstSelectable([s1 EXCEPT !.input = ""])
  ELSE s1)

\* set placeholder(value)
setPlaceholder(s, v) ==
  Then([s EXCEPT !.placeholder = v], LAMBDA s1 :
  IF v # "" /\ (s1.multiple \/ selectedItem(s1) = 0)
  THEN [s1 EXCEPT !.label = LabelPlaceholder]
  ELSE IF s1.multiple
  THEN [s1 EXCEPT !.label = LabelGeneric]
  ELSE IF selectedItem(s1) = 0
  THEN selectFirstSelectable([s1 EXCEPT !.input = ""])
  ELSE s1)

\* a faulty variant, for comparison: cases 3 and 5 are forgotten
syncSelectedItemPlaceholder_NoItemLabel(s) == setPlaceholder(s, s.placeholder)

\* _syncSelectedItemPlaceholder()
syncSelectedItemPlaceholder(s) ==
  Then(setPlaceholder(s, s.placeholder), LAMBDA s1 :
  IF selectedItem(s1) # 0 /\ ~s1.multiple
  THEN [s1 EXCEPT !.label = LabelItem(selectedItem(s1))]
  ELSE s1)

\* _updateLabel()
updateLabel(s) == syncSelectedItemPlaceholder(s)

\* a faulty variant, for comparison: the selection mode is not enforced
enforceSelectionMode_Skipped(s, i) == s

\* _onItemSelectedChange: when the item is selected, the selection mode is enforced
enforceSelectionMode(s, i) == IF ~s.multiple THEN deselectAllExcept(s, i) ELSE s

\* _onItemSelectedChange(event), event.target = i
onItemSelectedChange(s, i) ==
  IF s.threw THEN s
  ELSE IF s.depth >= MaxDepth THEN [s EXCEPT !.overflow = TRUE, !.threw = TRUE]
  ELSE Let(
    Then([s EXCEPT !.depth = @ + 1, !.bulk = TRUE], LAMBDA s1 :
    Then(IF s1.selected[i]
         THEN Then(onItemSelected(s1, i), LAMBDA a : enforceSelectionMode(a, i))
         ELSE onItemDeselected(s1, i), LAMBDA s2 :
    updateLabel([s2 EXCEPT !.bulk = FALSE]))), LAMBDA r :
    LogHandler(s, [r EXCEPT !.depth = s.depth], "itemchange", i))

\* the two loops of _onSelectListChange over popup-list entries
RECURSIVE deselectListItems(_, _)
deselectListItems(s, seq) ==
  IF seq = <<>> \/ s.threw THEN s
  ELSE deselectListItems(
         Then(IF s.li[Head(seq)].item # 0
              THEN removeSelectedAttribute(s, s.li[Head(seq)].item) ELSE s, LAMBDA s1 :
              Log(s1, "passStep", s.li[Head(seq)].item)),
         Tail(seq))

RECURSIVE selectListItems(_, _)
selectListItems(s, seq) ==
  IF seq = <<>> \/ s.threw THEN s
  ELSE selectListItems(
         Then(IF s.li[Head(seq)].item # 0
              THEN setSelectedAttribute(s, s.li[Head(seq)].item) ELSE s, LAMBDA s1 :
              Log(s1, "passStep", s.li[Head(seq)].item)),
         Tail(seq))

\* a faulty variant, for comparison: the guard is missing
listChangeIgnored_Never(s) == FALSE

\* the guard of _onSelectListChange, _onTagListChange and _onNativeSelectChange
listChangeIgnored(s) == s.bulk

tagChangeIgnored(s) == s.bulk

nativeChangeIgnored(s) == s.bulk

\* a faulty variant, for comparison: the change notification is forgotten
afterListChange_NoChange(s, newSelection) == IF ~s.overlayOpen THEN s ELSE hideOptions(s)

\* _onSelectListChange: after the loops
afterListChange(s, newSelection) ==
  IF ~s.overlayOpen THEN s
  ELSE IF newSelection # <<>> THEN triggerChange(hideOptions(s))
  ELSE hideOptions(s)

\* _onSelectListChange(event): event.detail.oldSelection and event.detail.selection
\* as sequences of entries; same: they are the same object
onSelectListChange(s, oldSelection, selection, same) ==
  IF s.threw THEN s
  ELSE IF listChangeIgnored(s) THEN LogHandler(s, s, "listchange", 0)
  ELSE Let(
    IF ~same
    THEN Then(Log([s EXCEPT !.bulk = TRUE], "passStart", 0), LAMBDA s1 :
         Then(deselectListItems(s1, arrayDiff(oldSelection, selection)), LAMBDA s2 :
         Then(selectListItems(s2, arrayDiff(selection, oldSelection)), LAMBDA s3 :
         afterListChange([s3 EXCEPT !.bulk = FALSE], arrayDiff(selection, oldSelection)))))
    ELSE IF s.overlayOpen THEN hideOptions(s) ELSE s, LAMBDA r :
    LogHandler(s, r, "listchange", 0))

\* _setStateFromDOM(), single mode with no selected item
selectWhenNoPlaceholder(s) ==
  Let(getFirstSelectable(s), LAMBDA selectable :
  IF s.placeholder = "" /\ selectable # 0
  THEN Then(setSelectedAttribute(s, selectable), LAMBDA b :
       [b EXCEPT !.input = b.value[selectable]])
  ELSE s)

\* a faulty variant, for comparison: all but the first selected item are deselected
setStateFromDOM_KeepsFirst(s) ==
  IF s.threw THEN s
  ELSE IF ~s.multiple
  THEN Then(deselectAllExcept(s, getFirstSelected(s)), LAMBDA s1 :
       Then(IF getFirstSelected(s1) = 0
            THEN selectWhenNoPlaceholder([s1 EXCEPT !.input = ""])
            ELSE [s1 EXCEPT !.input = s1.value[getFirstSelected(s1)]], LAMBDA s2 :
       updateLabel(s2)))
  ELSE updateLabel(s)

\* _setStateFromDOM()
setStateFromDOM(s) ==
  IF s.threw THEN s
  ELSE IF ~s.multiple
  THEN Then(deselectAllExceptLast(s), LAMBDA s1 :
       Then(IF getFirstSelected(s1) = 0
            THEN selectWhenNoPlaceholder([s1 EXCEPT !.input = ""])
            ELSE [s1 EXCEPT !.input = s1.value[getFirstSelected(s1)]], LAMBDA s2 :
       updateLabel(s2)))
  ELSE updateLabel(s)

\* the multiple branch of set values: every item is set or cleared
RECURSIVE setEachSelected(_, _, _)
setEachSelected(s, seq, values) ==
  IF seq = <<>> \/ s.threw THEN s
  ELSE setEachSelected(IF s.value[Head(seq)] \in Range(values)
                       THEN setSelectedAttribute(s, Head(seq))
                       ELSE removeSelectedAttribute(s, Head(seq)),
                       Tail(seq), values)

\* the single branch of set values: the first item with the value is selected,
\* every other item is deselected; the result carries targetItem
RECURSIVE selectFirstMatch(_, _, _, _)
selectFirstMatch(s, seq, v, targetItem) ==
  IF seq = <<>> \/ s.threw THEN [st |-> s, targetItem |-> targetItem]
  ELSE IF targetItem = 0 /\ s.value[Head(seq)] = v
       THEN selectFirstMatch(setSelectedAttribute(s, Head(seq)), Tail(seq), v, Head(seq))
       ELSE selectFirstMatch(removeSelectedAttribute(s, Head(seq)), Tail(seq), v, targetItem)

\* set values(values), single selection: values holds at most one value
setSingleValue(s, values) ==
  Let(selectFirstMatch(s, s.items, IF values = <<>> THEN "" ELSE values[1], 0), LAMBDA r :
  IF r.targetItem = 0 THEN setStateFromDOM(r.st) ELSE r.st)

\* a faulty variant, for comparison: the multiple branch selects the items of values and clears no other
setValues_KeepsOthers(s, values) ==
  IF s.multiple
  THEN setEachSelected(s, SeqFilter(s.items, {i \in Ids : s.value[i] \in Range(values)}),
                       values)
  ELSE setSingleValue(s, IF Len(values) > 1 THEN <<values[1]>> ELSE values)

\* set values(values)
setValues(s, values) ==
  IF s.multiple
  THEN setEachSelected(s, s.items, values)
  ELSE setSingleValue(s, IF Len(values) > 1 THEN <<values[1]>> ELSE values)

\* get values
getValues(s) ==
  IF s.multiple THEN TagValues(s)
  ELSE IF selectedItem(s) # 0 THEN <<s.input>> ELSE <<>>

\* get value (the value of the tag list is the value of its first tag)
getValue(s) ==
  IF s.multiple THEN (IF s.taglist = <<>> THEN "" ELSE TagValues(s)[1]) ELSE s.input

\* set value(value)
setValue(s, v) == setValues(s, <<v>>)

\* clear()
clear(s) == setValue(s, "")

\* reset()
reset(s) == setValues(s, s.initialValues)

\* _validateInitialState(nodes)
RECURSIVE validateInitialState(_, _)
validateInitialState(s, nodes) ==
  IF nodes = <<>> THEN s
  ELSE validateInitialState(
         IF IndexOf(s.initialValues, s.value[Head(nodes)]) # 0
         THEN [s EXCEPT !.initialValues =
                          RemoveAt(@, IndexOf(s.initialValues, s.value[Head(nodes)]))]
         ELSE s,
         Tail(nodes))

\* _onCollectionChange(addedNodes, removedNodes)
onCollectionChange(s, addedNodes, removedNodes) ==
  setStateFromDOM(validateInitialState(s, removedNodes))

RECURSIVE eachItemAdded(_, _)
eachItemAdded(s, seq) ==
  IF seq = <<>> THEN s ELSE eachItemAdded(onItemAdded(s, Head(seq)), Tail(seq))

RECURSIVE eachItemRemoved(_, _)
eachItemRemoved(s, seq) ==
  IF seq = <<>> THEN s ELSE eachItemRemoved(onItemRemoved(s, Head(seq)), Tail(seq))

\* the collection reports the items added and removed since its last report
handleItems(s) ==
  Let(eachItemAdded(eachItemRemoved(s, SetToSeq(s.handled \ Range(s.items))),
                    SeqFilter(s.items, Ids \ s.handled)), LAMBDA s1 :
  onCollectionChange([s1 EXCEPT !.handled = Range(s.items)],
                     SeqFilter(s.items, Ids \ s.handled),
                     SetToSeq(s.handled \ Range(s.items))))

\* set multiple, the body of the loop over the items
syncItemListAndTag(s, i) ==
  IF s.multiple /\ s.selected[i]
  THEN addTagToTagList(IF s.liOf[i] # 0 THEN [s EXCEPT !.li[s.liOf[i]].hidden = TRUE] ELSE s, i)
  ELSE Let(removeTagFromTagList(
             IF s.liOf[i] # 0 THEN [s EXCEPT !.li[s.liOf[i]].hidden = FALSE] ELSE s,
             i, FALSE), LAMBDA a :
       IF a.selected[i] THEN [a EXCEPT !.input = a.value[i]] ELSE a)

\* the loop at the end of set multiple
RECURSIVE syncListAndTags(_, _)
syncListAndTags(s, seq) ==
  IF seq = <<>> THEN s
  ELSE syncListAndTags(syncItemListAndTag(s, Head(seq)), Tail(seq))

\* set multiple: the tag list is a child of the component only when multiple
moveTagList(s) ==
  IF ~s.multiple
  THEN IF s.taglistChild THEN [s EXCEPT !.taglistChild = FALSE] ELSE Throw(s)
  ELSE [s EXCEPT !.taglistChild = TRUE]

\* set multiple: this._elements.nativeSelect.selectedIndex = -1
clearNativeSelection(s) ==
  [s EXCEPT !.no = [o \in EntryIds |-> [s.no[o] EXCEPT !.selected = FALSE]]]

\* set multiple(value)
setMultiple(s, v) ==
  Then(moveTagList([s EXCEPT !.multiple = v]), LAMBDA s2 :
  Then(setStateFromDOM(clearNativeSelection(s2)), LAMBDA s4 :
  syncListAndTags(s4, s4.items)))

\* the values of the selected items, as connectedCallback pushes them
selectedValues(s) == [k \in 1..Len(selectedItems(s)) |-> s.value[selectedItems(s)[k]]]

\* connectedCallback()
connectedCallback(s) ==
  Then(setStateFromDOM(s), LAMBDA s1 :
  [s1 EXCEPT !.initialValues = @ \o selectedValues(s1),
             !.taglistChild = TRUE, !.connected = TRUE, !.everConnected = TRUE,
             !.firstSnapshot = IF s.everConnected THEN @ ELSE selectedValues(s1)])

\* the loop of _onTagListChange over the selected items
RECURSIVE syncFromTagValues(_, _, _)
syncFromTagValues(s, seq, values) ==
  IF seq = <<>> \/ s.threw THEN s
  ELSE syncFromTagValues(
         Then(IF s.value[Head(seq)] \in Range(values)
              THEN setSelectedAttribute(s, Head(seq))
              ELSE removeSelectedAttribute(s, Head(seq)), LAMBDA s1 :
              Log(s1, "passStep", Head(seq))),
         Tail(seq), values)

\* a faulty variant, for comparison: the focus stays where it is
onTagListChange_NoFocus(s) ==
  IF s.threw THEN s
  ELSE IF tagChangeIgnored(s) THEN LogHandler(s, s, "tagchange", 0)
  ELSE Let(
    Then(Log([s EXCEPT !.bulk = TRUE], "passStart", 0), LAMBDA s1 :
    Then(syncFromTagValues(s1, getAllSelected(s1), TagValues(s)), LAMBDA s2 :
    triggerChange([s2 EXCEPT !.bulk = FALSE]))),
    LAMBDA r : LogHandler(s, r, "tagchange", 0))

\* _onTagListChange(event)
onTagListChange(s) ==
  IF s.threw THEN s
  ELSE IF tagChangeIgnored(s) THEN LogHandler(s, s, "tagchange", 0)
  ELSE Let(
    Then(Log([s EXCEPT !.bulk = TRUE], "passStart", 0), LAMBDA s1 :
    Then(syncFromTagValues(s1, getAllSelected(s1), TagValues(s)), LAMBDA s2 :
    triggerChange([s2 EXCEPT !.bulk = FALSE, !.focusButton = (TagValues(s) = <<>>)]))),
    LAMBDA r : LogHandler(s, r, "tagchange", 0))

\* item._selectItem.selected = v, for a native option (0: undefined)
optionItemSetSelected(s, o, v) ==
  IF o = 0 THEN Throw(s)
  ELSE IF s.no[o].item = 0 THEN Throw(s)
  ELSE Log(setSelectedProperty(s, s.no[o].item, v), "passStep", s.no[o].item)

\* the two loops of _onNativeSelectChange over native options
RECURSIVE setOptionItems(_, _, _)
setOptionItems(s, seq, v) ==
  IF seq = <<>> \/ s.threw THEN s
  ELSE setOptionItems(optionItemSetSelected(s, Head(seq), v), Tail(seq), v)

\* _onNativeSelectChange: this.selectedItems.map(element => element._nativeOption)
oldSelectedOptions(s) == [k \in 1..Len(selectedItems(s)) |-> s.noOf[selectedItems(s)[k]]]

\* _onNativeSelectChange: after the loops
afterNativeChange(s) ==
  triggerChange(IF s.multiple THEN s ELSE [s EXCEPT !.focusButton = TRUE, !.hides = @ + 1])

\* _onNativeSelectChange(event)
onNativeSelectChange(s) ==
  IF s.threw THEN s
  ELSE IF nativeChangeIgnored(s) THEN LogHandler(s, s, "nativechange", 0)
  ELSE Let(
    Then(Log([s EXCEPT !.bulk = TRUE], "passStart", 0), LAMBDA s1 :
    Then(setOptionItems(s1, arrayDiff(oldSelectedOptions(s1), CheckedOptions(s1)), FALSE),
         LAMBDA s2 :
    Then(setOptionItems(s2, arrayDiff(CheckedOptions(s1), oldSelectedOptions(s1)), TRUE),
         LAMBDA s3 :
    afterNativeChange([s3 EXCEPT !.bulk = FALSE])))),
    LAMBDA r : LogHandler(s, r, "nativechange", 0))

\* ------------------------------------------------------------ the actions
\* the arrays a caller may assign to values
ValueLists == UNION {[1..n -> Vals \cup {NoValue}] : n \in 0..MaxValues}

\* no mutation of the collection is waiting to be reported: the state in which
\* user events are delivered
Settled == handled = Range(items)

\* the constructor: no item, single mode, no placeholder, not attached
Constructed(dis, val, native) ==
  [items |-> <<>>, selected |-> [i \in Ids |-> FALSE], disabled |-> dis, value |-> val,
   multiple |-> FALSE, placeholder |-> "", input |-> "", label |-> LabelEmpty,
   bulk |-> FALSE, overlayOpen |-> FALSE, liOf |-> [i \in Ids |-> 0],
   li |-> [e \in EntryIds |-> FreeEntry], noOf |-> [i \in Ids |-> 0],
   no |-> [o \in EntryIds |-> FreeOption], tagOf |-> [i \in Ids |-> FALSE],
   taglist |-> <<>>, initialValues |-> <<>>, connected |-> FALSE, everConnected |-> FALSE,
   firstSnapshot |-> <<>>, useNative |-> native, handled |-> {}, taglistChild |-> FALSE,
   selOrder |-> <<>>, loading |-> FALSE, selectDisabled |-> FALSE, shows |-> <<>>,
   focusButton |-> FALSE, depth |-> 0, overflow |-> FALSE, changes |-> 0, hides |-> 0,
   threw |-> FALSE, trace |-> <<>>]

HoldsSelect(s) ==
  /\ items = s.items /\ selected = s.selected /\ disabled = s.disabled
  /\ value = s.value /\ multiple = s.multiple /\ placeholder = s.placeholder
  /\ input = s.input /\ label = s.label /\ bulk = s.bulk
  /\ overlayOpen = s.overlayOpen /\ liOf = s.liOf /\ li = s.li
  /\ noOf = s.noOf /\ no = s.no /\ tagOf = s.tagOf /\ taglist = s.taglist
  /\ initialValues = s.initialValues /\ connected = s.connected
  /\ everConnected = s.everConnected /\ firstSnapshot = s.firstSnapshot
  /\ useNative = s.useNative /\ handled = s.handled /\ taglistChild = s.taglistChild
  /\ selOrder = s.selOrder /\ loading = s.loading
  /\ selectDisabled = s.selectDisabled

Holds(s) == HoldsSelect(s) /\ commons = NoCommons

\* the component has been constructed; the items that will be given to it have
\* their values and disabled attributes
Init ==
  \E dis \in [Ids -> BOOLEAN], val \in [Ids -> Vals], native \in BOOLEAN :
    Holds(Constructed(dis, val, native))

\* the component has been constructed and attached to the document
InitAttached ==
  \E dis \in [Ids -> BOOLEAN], val \in [Ids -> Vals], native \in BOOLEAN :
    Holds(connectedCallback(Constructed(dis, val, native)))

\* a script appends item i, with or without the selected attribute, to the
\* component, and the collection reports it
AppendItemRun(i, sel) ==
  handleItems([Fresh EXCEPT !.items = Append(@, i), !.selected[i] = sel,
                            !.selOrder = IF sel THEN Append(@, i) ELSE @])

AppendItem(i, sel) ==
  /\ i \notin Range(items)
  /\ Install(AppendItemRun(i, sel))

\* a script removes item i from the component, and the collection reports it; what
\* becomes of the selected attribute of the removed item is of no consequence, since
\* AppendItem chooses it anew
RemoveItemRun(i) ==
  handleItems([Fresh EXCEPT !.items = SeqFilter(@, Ids \ {i}), !.selected[i] = FALSE,
                            !.selOrder = SeqFilter(@, Ids \ {i})])

RemoveItem(i) ==
  /\ i \in Range(items)
  /\ Install(RemoveItemRun(i))

\* a script sets or removes the selected attribute of an item of the collection
ItemSelectRun(i) == setSelectedAttribute(Fresh, i)

ItemSelect(i) ==
  /\ i \in Range(items)
  /\ Install(ItemSelectRun(i))

ItemDeselectRun(i) == removeSelectedAttribute(Fresh, i)

ItemDeselect(i) ==
  /\ i \in Range(items)
  /\ selected[i]
  /\ Install(ItemDeselectRun(i))

AssignValuesRun(vs) == setValues(Fresh, vs)

AssignValues(vs) == Install(AssignValuesRun(vs))

ResetRun == reset(Fresh)

Reset == Install(ResetRun)

Clear == Install(clear(Fresh))

AssignMultiple(v) == Install(setMultiple(Fresh, v))

AssignPlaceholder(v) ==
  /\ v # placeholder
  /\ Install(setPlaceholder(Fresh, v))

ConnectRun == connectedCallback(Fresh)

Connect ==
  /\ ~connected
  /\ Len(initialValues) + Len(selectedItems(Fresh)) <= MaxInitial
  /\ Install(ConnectRun)

Disconnect ==
  /\ connected
  /\ Install([Fresh EXCEPT !.connected = FALSE])

\* a faulty variant, for comparison: no change is prevented
beforeChangePrevented_Never(s, e) == FALSE

\* _onSelectListBeforeChange(event), event.detail.item = e: the change is prevented
beforeChangePrevented(s, e) == ~s.multiple /\ s.li[e].selected

\* the user picks entry e of the popup list: the list asks (beforechange), updates
\* its own selection and reports it (change)
ListPickEnabled(e) ==
  /\ Settled
  /\ li[e].attached /\ ~li[e].hidden /\ ~li[e].disabled

\* the selection of the list before and after the pick, and the state in which
\* the list reports the change
ListPickOld == ListSelection(Fresh)

ListPicked(e) ==
  IF multiple
  THEN [Fresh EXCEPT !.li[e].selected = ~@]
  ELSE [Fresh EXCEPT !.li = [f \in EntryIds |-> [li[f] EXCEPT !.selected = (f = e)]]]

ListPickNew(e) == ListSelection(ListPicked(e))

ListPickRun(e) ==
  IF beforeChangePrevented(Fresh, e)
  THEN [Fresh EXCEPT !.overlayOpen = FALSE]
  ELSE onSelectListChange(ListPicked(e), ListPickOld, ListPickNew(e), FALSE)

ListPick(e) ==
  /\ ListPickEnabled(e)
  /\ Install(ListPickRun(e))

\* the popup list reports a change whose old and new selection are the same object
ListSame ==
  /\ Settled
  /\ Install(onSelectListChange(Fresh, ListSelection(Fresh), ListSelection(Fresh), TRUE))

\* the user picks option o of the native control, which then reports a change
NativePickEnabled(o) ==
  /\ Settled
  /\ useNative
  /\ no[o].attached /\ ~no[o].disabled
  /\ multiple \/ ~no[o].selected

NativePicked(o) ==
  IF multiple
  THEN [Fresh EXCEPT !.no[o].selected = ~@]
  ELSE [Fresh EXCEPT !.no = [f \in EntryIds |-> [no[f] EXCEPT !.selected = (f = o)]]]

NativePickRun(o) == onNativeSelectChange(NativePicked(o))

NativePick(o) ==
  /\ NativePickEnabled(o)
  /\ Install(NativePickRun(o))

\* the user removes the tag of item i from the tag list, which then reports a change
TagRemoveEnabled(i) ==
  /\ Settled
  /\ multiple /\ taglistChild
  /\ i \in Range(taglist)

TagRemoveRun(i) == onTagListChange([Fresh EXCEPT !.taglist = SeqFilter(@, Ids \ {i})])

TagRemove(i) ==
  /\ TagRemoveEnabled(i)
  /\ Install(TagRemoveRun(i))

\* a faulty variant, for comparison: the disabled attribute is not looked at
onButtonClick_WhenDisabled(s, nearBottom, prevented) ==
  IF s.useNative THEN s
  ELSE IF s.overlayOpen THEN hideOptions(s)
  ELSE showOptions(s, TRUE, nearBottom, prevented)

\* _onButtonClick(event): the overlay is toggled
onButtonClick(s, nearBottom, prevented) ==
  IF s.selectDisabled THEN s
  ELSE IF s.useNative THEN s
  ELSE IF s.overlayOpen THEN hideOptions(s)
  ELSE showOptions(s, TRUE, nearBottom, prevented)

\* the user clicks the button
ButtonClickRun(nearBottom, prevented) == onButtonClick(Fresh, nearBottom, prevented)

ButtonClick ==
  /\ Settled
  /\ ~useNative
  /\ \E nearBottom, prevented \in BOOLEAN : Install(ButtonClickRun(nearBottom, prevented))

\* _onGlobalClick(event): outside says that the target is neither in the button
\* nor in the overlay
onGlobalClick(s, outside) ==
  IF ~s.overlayOpen THEN s
  ELSE IF outside THEN hideOptions(s) ELSE s

\* the user clicks somewhere in the document while the overlay is open
GlobalClickRun(outside) == onGlobalClick(Fresh, outside)

GlobalClick ==
  /\ Settled
  /\ overlayOpen
  /\ \E outside \in BOOLEAN : Install(GlobalClickRun(outside))

\* a faulty variant, for comparison: the overlay is not looked at
onSelectListScrollBottom_Unguarded(s, prevented) ==
  showOptions(s, FALSE, FALSE, prevented)

\* _onSelectListScrollBottom(event): the popup list was scrolled to its end
onSelectListScrollBottom(s, prevented) ==
  IF s.overlayOpen THEN showOptions(s, FALSE, FALSE, prevented) ELSE s

ScrollBottomRun(prevented) == onSelectListScrollBottom(Fresh, prevented)

\* the notification of the list is debounced: it may be handled after the overlay
\* has been closed
ScrollBottom ==
  /\ Settled
  /\ \E prevented \in BOOLEAN : Install(ScrollBottomRun(prevented))

\* _onNativeSelectClick(event): the user opens the native control
NativeSelectClickRun(prevented) == showOptions(Fresh, FALSE, FALSE, prevented)

NativeSelectClick ==
  /\ Settled
  /\ useNative
  /\ \E prevented \in BOOLEAN : Install(NativeSelectClickRun(prevented))

\* a click reaches the button of a disabled Select or of one that uses the native
\* control
DisabledButtonClick ==
  /\ Settled
  /\ selectDisabled \/ useNative
  /\ \E nearBottom, prevented \in BOOLEAN : Install(ButtonClickRun(nearBottom, prevented))

\* set disabled(value)
setDisabled(s, v) == [s EXCEPT !.selectDisabled = v]

\* a script sets or removes the disabled attribute of the Select
AssignDisabled(v) ==
  /\ v # selectDisabled
  /\ Install(setDisabled(Fresh, v))

\* _onSpaceKey(event), for the space key and the down key: with the native control
\* a mousedown event is sent to it, which no handler of the Select listens to;
\* otherwise this._elements.button.click() runs _onButtonClick
onSpaceKey(s, key, nearBottom, prevented) ==
  IF s.selectDisabled THEN s
  ELSE IF s.useNative THEN s
  ELSE IF ~s.overlayOpen \/ key = "space" THEN onButtonClick(s, nearBottom, prevented)
  ELSE s

SpaceKeyRun(key, nearBottom, prevented) == onSpaceKey(Fresh, key, nearBottom, prevented)

\* the user presses the space key or the down key on the button
SpaceKey(key) ==
  /\ Settled
  /\ \E nearBottom, prevented \in BOOLEAN : Install(SpaceKeyRun(key, nearBottom, prevented))

\* the attached component: items come and go, scripts and the user select
Next ==
  \/ \E i \in Ids, sel \in BOOLEAN : AppendItem(i, sel)
  \/ \E i \in Ids : RemoveItem(i)
  \/ \E i \in Ids : ItemSelect(i)
  \/ \E i \in Ids : ItemDeselect(i)
  \/ \E vs \in ValueLists : AssignValues(vs)
  \/ Reset
  \/ Clear
  \/ \E v \in BOOLEAN : AssignMultiple(v)
  \/ \E v \in {"", PlaceholderText} : AssignPlaceholder(v)
  \/ \E e \in EntryIds : ListPick(e)
  \/ ListSame
  \/ \E o \in EntryIds : NativePick(o)
  \/ \E i \in Ids : TagRemove(i)
  \/ ButtonClick
  \/ GlobalClick
  \/ ScrollBottom
  \/ NativeSelectClick

Spec == InitAttached /\ [][Next]_vars

\* the component with the disabled attribute and the keyboard: items come and go,
\* scripts select and change the mode, the user opens and closes the overlay with
\* the mouse and the keys and picks in the list
NextDisabled ==
  \/ \E i \in Ids, sel \in BOOLEAN : AppendItem(i, sel)
  \/ \E i \in Ids : RemoveItem(i)
  \/ \E i \in Ids : ItemSelect(i)
  \/ \E v \in BOOLEAN : AssignMultiple(v)
  \/ \E e \in EntryIds : ListPick(e)
  \/ ButtonClick
  \/ GlobalClick
  \/ NativeSelectClick
  \/ \E v \in BOOLEAN : AssignDisabled(v)
  \/ \E key \in {"space", "down"} : SpaceKey(key)
  \/ DisabledButtonClick

SpecDisabled == InitAttached /\ [][NextDisabled]_vars

\* the life of the component from its construction: it is attached and detached,
\* items come and go and scripts select, assign and reset; the selection mode is
\* the one of the markup
NextLifecycle ==
  \/ \E i \in Ids, sel \in BOOLEAN : AppendItem(i, sel)
  \/ \E i \in Ids : RemoveItem(i)
  \/ \E i \in Ids : ItemSelect(i)
  \/ \E i \in Ids : ItemDeselect(i)
  \/ \E vs \in ValueLists : AssignValues(vs)
  \/ Reset
  \/ Clear
  \/ \E v \in {"", PlaceholderText} : AssignPlaceholder(v)
  \/ Connect
  \/ Disconnect

\* the desktop build with enabled items, constructed from markup with or without
\* the multiple attribute
InitLifecycle ==
  \E val \in [Ids -> Vals], m \in BOOLEAN :
    Holds(IF m THEN setMultiple(Constructed([i \in Ids |-> FALSE], val, FALSE), TRUE)
          ELSE Constructed([i \in Ids |-> FALSE], val, FALSE))

SpecLifecycle == InitLifecycle /\ [][NextLifecycle]_vars

\* a script or the parser appends item i, with or without the selected
\* attribute: the collection has not reported it yet
AppendChild(i, sel) ==
  /\ i \notin Range(items)
  /\ Install([Fresh EXCEPT !.items = Append(@, i), !.selected[i] = sel,
                           !.selOrder = IF sel THEN Append(@, i) ELSE @])

\* the collection reports the mutations of the children since its last report
CollectionChangeRun == handleItems(Fresh)

CollectionChange ==
  /\ ~Settled
  /\ Install(CollectionChangeRun)

\* the component is attached for the first time
FirstConnect ==
  /\ ~everConnected
  /\ Install(ConnectRun)

\* the component as the parser and scripts build it: children are appended,
\* their selected attribute is set and removed and the component is attached
\* before the collection reports its children; the user acts once it has reported
NextMarkup ==
  \/ \E i \in Ids, sel \in BOOLEAN : AppendChild(i, sel)
  \/ CollectionChange
  \/ FirstConnect
  \/ \E i \in Ids : ItemSelect(i)
  \/ \E i \in Ids : ItemDeselect(i)
  \/ \E e \in EntryIds : ListPick(e)
  \/ \E o \in EntryIds : NativePick(o)
  \/ \E i \in Ids : TagRemove(i)

\* the attributes of the markup are set on the constructed component
WithMarkup(s, m, p) ==
  Let(IF m THEN setMultiple(s, TRUE) ELSE s, LAMBDA s1 :
  IF p # "" THEN setPlaceholder(s1, p) ELSE s1)

\* the component has been constructed from markup with or without the multiple
\* and placeholder attributes; it has no children yet
InitMarkup ==
  \E dis \in [Ids -> BOOLEAN], val \in [Ids -> Vals], native \in BOOLEAN,
     m \in BOOLEAN, p \in {"", PlaceholderText} :
    Holds(WithMarkup(Constructed(dis, val, native), m, p))

SpecMarkup == InitMarkup /\ [][NextMarkup]_vars

\* ------------------------------------------------- the runs of the handlers
\* the runs that an origin event can start in the current state, by origin
ItemRuns ==
  {ItemSelectRun(i) : i \in Range(items)}
    \cup {ItemDeselectRun(i) : i \in {j \in Range(items) : selected[j]}}

ListRuns == {ListPickRun(e) : e \in {f \in EntryIds : ListPickEnabled(f)}}

NativeRuns == {NativePickRun(o) : o \in {f \in EntryIds : NativePickEnabled(f)}}

TagRuns == {TagRemoveRun(i) : i \in {j \in Ids : TagRemoveEnabled(j)}}

PassRuns == ListRuns \cup NativeRuns \cup TagRuns

\* the runs that a script can start in the current state
ScriptRuns ==
  {AssignValuesRun(vs) : vs \in ValueLists}
    \cup {ResetRun}
    \cup {setMultiple(Fresh, v) : v \in BOOLEAN}
    \cup {setPlaceholder(Fresh, v) : v \in {"", PlaceholderText}}
    \cup {AppendItemRun(i, sel) : i \in Ids \ Range(items), sel \in BOOLEAN}
    \cup {RemoveItemRun(i) : i \in Range(items)}

HandlerRuns == ItemRuns \cup PassRuns \cup ScriptRuns

Entries(r) == {r.trace[k] : k \in 1..Len(r.trace)}

\* ------------------------------------------------------------------ claims
\* C1: in single-selection mode at most one item of the collection is selected
\* once an operation has settled.
C1_AtMostOneSelected == ~multiple => NumSelected(Fresh) <= 1

\* C1 witness: single mode, two items, and the second one is the selected one
C1_Witness ==
  /\ ~multiple /\ Len(items) = 2
  /\ selected[items[2]] /\ ~selected[items[1]] /\ ~disabled[items[1]]
  /\ placeholder = ""

ViewEvents == {"listchange", "nativechange", "tagchange"}

\* C2 as amended: a popup-list, native-control or tag-list change event observed
\* while _bulkSelectionChange is set is ignored: the handler changes nothing of
\* the program state and fires no notification.
C2_ViewEventsIgnoredWhileFlagSet ==
  \A r \in HandlerRuns : \A x \in Entries(r) :
    (x.ev \in ViewEvents /\ x.bulk) => ~x.effect

\* C2 witness: a run in which a popup-list change is observed while the flag is set
C2_Witness ==
  /\ Len(items) = 2
  /\ \E r \in ListRuns : \E x \in Entries(r) : x.ev = "listchange" /\ x.bulk /\ x.nsel > 0

\* C2 as stated: every origin event observed while the flag is set, the item
\* selected-change among them, is ignored.
C2_AllEventsIgnoredWhileFlagSet ==
  \A r \in HandlerRuns : \A x \in Entries(r) :
    (x.ev \in ViewEvents \cup {"itemchange"} /\ x.bulk) => ~x.effect

\* C3 as stated: from the moment a pass sets the flag until its last item update
\* the flag is set at every step, also after the nested item handlers returned.
C3_FlagSetDuringPass ==
  \A r \in PassRuns : \A x \in Entries(r) :
    x.ev \in {"passStart", "passStep"} => x.bulk

\* the invocations of _onItemSelectedChange that returned in run r
ItemChanges(r) == Cardinality({k \in 1..Len(r.trace) : r.trace[k].ev = "itemchange"})

\* C4: the chain of handler invocations that one origin event causes is finite:
\* in no run do the invocations of _onItemSelectedChange nest deeper than
\* MaxDepth, and every loop of a handler is over a finite snapshot.
C4_PassTerminates == \A r \in HandlerRuns : ~r.overflow

\* C4 witness: a pass whose item updates cause a chain of handlers (deselect,
\* auto-select, select)
C4_Witness == \E r \in PassRuns : ItemChanges(r) >= 3 /\ ~r.overflow

\* C5 as stated: in a pass that the popup list or the native control starts, the
\* items leaving the selection are deselected before the items entering it are
\* selected, so that in single-selection mode no step of the pass sees two
\* selected items.
C5_NoTwoSelectedDuringPass ==
  \A r \in ListRuns \cup NativeRuns : \A x \in Entries(r) :
    x.single => x.nsel <= 1

\* the entries that a pick of entry e takes out of, puts into, and leaves in or
\* out of the selection of the popup list
Leaving(e) == Range(ListPickOld) \ Range(ListPickNew(e))

Entering(e) == Range(ListPickNew(e)) \ Range(ListPickOld)

\* C6: a popup-list change clears the selected flag of the items whose entry is in
\* oldSelection only, sets it for the items whose entry is in selection only, and
\* leaves the flag of every other item as it was before the pass.
C6_ListChangeFrame ==
  \A e \in {f \in EntryIds : ListPickEnabled(f) /\ ~beforeChangePrevented(Fresh, f)} :
    \A j \in Range(items) :
      /\ liOf[j] \in Leaving(e) => ~ListPickRun(e).selected[j]
      /\ liOf[j] \in Entering(e) => ListPickRun(e).selected[j]
      /\ liOf[j] \notin Leaving(e) \cup Entering(e) => ListPickRun(e).selected[j] = selected[j]

\* C6 witness: multiple mode, a pick that leaves one selected entry in the
\* selection and puts another one into it
C6_Witness ==
  \E e \in {f \in EntryIds : ListPickEnabled(f)} :
    /\ multiple
    /\ Entering(e) # {}
    /\ Range(ListPickOld) \cap Range(ListPickNew(e)) # {}
    /\ NumSelected(ListPickRun(e)) = 2

\* the selected item of the collection that is last in collection order
LastSelectedInOrder == getLastSelected(Fresh)

\* on the item selected-change path the item just selected is the one that stays
ItemPathKeepsSelected ==
  ~multiple => \A i \in Range(items) : getAllSelected(ItemSelectRun(i)) = <<i>>

\* C7 as amended: in single-selection mode the item that stays selected is, on the
\* item selected-change path, the item just selected, and on state normalisation
\* from the DOM the selected item that is last in collection order.
C7_KeepsLastInOrder ==
  /\ ItemPathKeepsSelected
  /\ (multiple /\ Len(selOrder) >= 2) =>
       getAllSelected(setMultiple(Fresh, FALSE)) = <<LastSelectedInOrder>>

\* C7 witness: two items are selected in multiple mode, the first of the
\* collection most recently, and the mode is switched to single selection
C7_Witness ==
  /\ multiple /\ Len(selOrder) = 2 /\ Len(items) = 2
  /\ selOrder[2] = items[1]
  /\ getAllSelected(setMultiple(Fresh, FALSE)) = <<items[2]>>

\* C7 as stated: on both paths the item that stays selected is the one selected
\* most recently.
C7_LastWriteWins ==
  /\ ItemPathKeepsSelected
  /\ (multiple /\ Len(selOrder) >= 2) =>
       getAllSelected(setMultiple(Fresh, FALSE)) = <<selOrder[Len(selOrder)]>>

\* the items of the collection whose value is v
Matching(v) == {j \in Range(items) : value[j] = v}

\* what reading values returns after values = [v] when no item has value v:
\* nothing, or the value of the first selectable item when it was auto-selected
NoMatchResult(r) ==
  \/ getValues(r) = <<>>
  \/ /\ getFirstSelectable(r) # 0
     /\ r.selected[getFirstSelectable(r)]
     /\ getValues(r) = <<r.value[getFirstSelectable(r)]>>

\* C8 as amended: after values = [v], reading values returns [v] in
\* single-selection mode when an item has value v, and one v for every item with
\* value v in multiple mode; when no item has value v it returns [] or the
\* value of the auto-selected first selectable item.
C8_ValuesRoundTrip ==
  \A v \in Vals \cup {NoValue} :
    IF Matching(v) = {} THEN NoMatchResult(AssignValuesRun(<<v>>))
    ELSE IF multiple
    THEN getValues(AssignValuesRun(<<v>>)) = [k \in 1..Cardinality(Matching(v)) |-> v]
    ELSE getValues(AssignValuesRun(<<v>>)) = <<v>>

\* C8 witness: multiple mode, two items with the same value, another selection before
C8_Witness ==
  /\ multiple /\ Cardinality(Matching("a")) = 2
  /\ getValues(AssignValuesRun(<<"a">>)) = <<"a", "a">>

\* C8 as stated: after values = [v], reading values returns [v] when an item has
\* value v.
C8_ValuesRoundTripOne ==
  \A v \in Vals \cup {NoValue} :
    IF Matching(v) = {} THEN NoMatchResult(AssignValuesRun(<<v>>))
    ELSE getValues(AssignValuesRun(<<v>>)) = <<v>>

\* no two items have the same value, and every value of the snapshot is the value
\* of an item of the collection
SnapshotItemsPresent ==
  /\ \A i, j \in Ids : i # j => value[i] # value[j]
  /\ \A k \in 1..Len(firstSnapshot) : Matching(firstSnapshot[k]) # {}

\* C9 as stated: once the component has been attached with a selection, reset()
\* makes values equal to the values that were selected at the first attachment,
\* also when the items of the snapshot were removed and added again in between
\* (the items have distinct values and those of the snapshot are in the collection
\* when reset() is called).
C9_ResetRestoresSnapshot ==
  (everConnected /\ firstSnapshot # <<>> /\ SnapshotItemsPresent) =>
    getValues(ResetRun) = firstSnapshot

\* the entries of the initial value set that go when item i is removed
WithoutValueOf(seq, i) ==
  IF IndexOf(seq, value[i]) # 0 THEN RemoveAt(seq, IndexOf(seq, value[i])) ELSE seq

\* C10 as stated: the initial value set is written at the first attachment and
\* afterwards changes only by losing the entry of an item that is removed.
C10_InitialValuesFrame ==
  [][initialValues' # initialValues =>
       \/ ~everConnected /\ everConnected'
       \/ \E i \in Range(items) \ Range(items') :
            initialValues' = WithoutValueOf(initialValues, i)]_vars

\* the entries that the user can pick and whose item is selected, in
\* single-selection mode
PicksOfSelected ==
  {e \in EntryIds : ListPickEnabled(e) /\ ~multiple /\ li[e].item # 0 /\ selected[li[e].item]}

\* C11: in single-selection mode a pick of the entry that is already selected is
\* prevented: no change of the popup list is handled, no item's selected flag
\* changes and no change notification fires.
C11_PickOfSelectedIsNoOp ==
  \A e \in PicksOfSelected :
    /\ Entries(ListPickRun(e)) = {}
    /\ ListPickRun(e).selected = selected
    /\ ListPickRun(e).changes = 0

\* C11 witness: the list is open, two items, and the entry of the selected item
\* can be picked
C11_Witness ==
  /\ ~multiple /\ overlayOpen /\ Len(items) = 2
  /\ PicksOfSelected # {}

\* a single-selection component without placeholder whose children, none of them
\* selected, include a selectable one, before its first attachment
AttachesWithoutSelection ==
  /\ ~everConnected /\ ~multiple /\ placeholder = ""
  /\ getAllSelected(Fresh) = <<>>
  /\ getFirstSelectable(Fresh) # 0

\* C12: when a single-selection Select with no placeholder and no selected item
\* is attached, its first selectable item becomes the selected item, the
\* single-value field holds that item's value and the label shows its content.
C12_AttachSelectsFirstSelectable ==
  AttachesWithoutSelection =>
    /\ getAllSelected(ConnectRun) = <<getFirstSelectable(Fresh)>>
    /\ ConnectRun.input = value[getFirstSelectable(Fresh)]
    /\ ConnectRun.label = LabelItem(getFirstSelectable(Fresh))

\* C12 witness: two children, the first one disabled, none selected, and the
\* attachment selects the second
C12_Witness ==
  /\ AttachesWithoutSelection
  /\ Len(items) = 2 /\ disabled[items[1]]
  /\ ConnectRun.selected[items[2]]

\* the entries that the user can pick in the open popup list of a single-selection
\* Select, whose item is not selected while another item is
PicksOfAnother ==
  {e \in EntryIds : /\ ListPickEnabled(e) /\ overlayOpen /\ ~multiple
                    /\ li[e].item # 0 /\ ~selected[li[e].item]
                    /\ getAllSelected(Fresh) # <<>>}

\* the same for the options of the native control
NativePicksOfAnother ==
  {o \in EntryIds : /\ NativePickEnabled(o) /\ ~multiple
                    /\ no[o].item # 0 /\ ~selected[no[o].item]
                    /\ getAllSelected(Fresh) # <<>>}

\* C13: in single-selection mode with an item selected, the user's selection of
\* another item, in the popup list or the native control, leaves that item as the
\* only selected one, shows its content as the label and fires exactly one change
\* notification.
C13_SelectAnotherFiresOneChange ==
  /\ \A e \in PicksOfAnother :
       /\ getAllSelected(ListPickRun(e)) = <<li[e].item>>
       /\ ListPickRun(e).label = LabelItem(li[e].item)
       /\ ListPickRun(e).changes = 1
  /\ \A o \in NativePicksOfAnother :
       /\ getAllSelected(NativePickRun(o)) = <<no[o].item>>
       /\ NativePickRun(o).label = LabelItem(no[o].item)
       /\ NativePickRun(o).changes = 1

\* C13 witness: no placeholder, the first item is selected and the user picks the
\* entry of the second
C13_Witness ==
  /\ Len(items) = 2 /\ placeholder = "" /\ selected[items[1]]
  /\ \E e \in PicksOfAnother : li[e].item = items[2] /\ ListPickRun(e).changes = 1

\* the items whose tag is the last one of the tag list: once the user removes it,
\* the tag list reports empty values
LastTags == {i \in Ids : TagRemoveEnabled(i) /\ Range(taglist) = {i}}

\* C14: in multiple-selection mode, when the tag list reports that its values are
\* empty, every item that was selected is deselected, the focus returns to the
\* button and exactly one change notification is fired.
C14_EmptyTagListDeselectsAll ==
  \A i \in LastTags :
    /\ getAllSelected(TagRemoveRun(i)) = <<>>
    /\ TagRemoveRun(i).focusButton
    /\ TagRemoveRun(i).changes = 1

\* C14 witness: the only selected item of two loses its tag
C14_Witness ==
  /\ Len(items) = 2 /\ getAllSelected(Fresh) # <<>>
  /\ \E i \in LastTags : selected[i] /\ ~TagRemoveRun(i).selected[i]

\* the label that the state table of set placeholder and
\* _syncSelectedItemPlaceholder gives for a state: p is placeholder # "", m is
\* multiple, se is selectedItem # 0
TableLabel(s) ==
  IF s.multiple THEN (IF s.placeholder # "" THEN LabelPlaceholder ELSE LabelGeneric)
  ELSE IF selectedItem(s) # 0 THEN LabelItem(selectedItem(s))
  ELSE IF s.placeholder # "" THEN LabelPlaceholder
  ELSE IF getFirstSelectable(s) # 0 THEN LabelItem(getFirstSelectable(s))
  ELSE LabelEmpty

\* C15: after the label is updated, the label is the one of the state table:
\* the placeholder for p,m and for p,!m,!se; the selected item's content for !m,se;
\* the first selectable item's content for !p,!m,!se (empty when no item is
\* selectable); the generic label for !p,m.
C15_LabelFollowsStateTable == updateLabel(Fresh).label = TableLabel(Fresh)

\* C15 witness: no placeholder, single mode, nothing selected; the first item is
\* disabled, and the label becomes the content of the second
C15_Witness ==
  /\ ~multiple /\ placeholder = "" /\ getAllSelected(Fresh) = <<>>
  /\ Len(items) = 2 /\ disabled[items[1]] /\ ~disabled[items[2]]
  /\ updateLabel(Fresh).label = LabelItem(items[2])

\* C16: the label computation changes a selected flag only when there is no
\* placeholder, the mode is single and no item is selected: there it selects the
\* first selectable item and nothing else; in every other case all selected flags
\* are left as they were.
C16_LabelSelectsOnlyInCaseFour ==
  updateLabel(Fresh).selected =
    IF ~multiple /\ placeholder = "" /\ selectedItem(Fresh) = 0 /\ getFirstSelectable(Fresh) # 0
    THEN [selected EXCEPT ![getFirstSelectable(Fresh)] = TRUE]
    ELSE selected

\* C16 witness: a placeholder, single mode, nothing selected although an item
\* could be: the label is computed and no item becomes selected
C16_Witness ==
  /\ ~multiple /\ placeholder # "" /\ getAllSelected(Fresh) = <<>>
  /\ Len(items) = 2 /\ getFirstSelectable(Fresh) # 0
  /\ updateLabel(Fresh).label = LabelPlaceholder
  /\ updateLabel(Fresh).selected = selected

\* C17: once the collection has reported every child, the tag list holds exactly
\* one tag for each selected item in multiple mode, and no tag in single mode.
C17_TagPerSelectedItem ==
  Settled =>
    /\ multiple => /\ Range(taglist) = Range(getAllSelected(Fresh))
                   /\ Len(taglist) = Len(getAllSelected(Fresh))
    /\ ~multiple => taglist = <<>>

\* C17 witness: multiple mode, both items selected, and a tag for each
C17_Witness ==
  /\ Settled /\ multiple /\ Len(items) = 2
  /\ Len(getAllSelected(Fresh)) = 2 /\ Len(taglist) = 2

\* the views of item i in the outcome r of a handler: the popup-list entry and the
\* native option exist, are attached, are linked with the item in both directions
\* and carry its value, content, disabled and selected fields, and in multiple
\* mode a selected item has its tag in the tag list
ViewsBuilt(r, i) ==
  /\ r.liOf[i] # 0 /\ r.noOf[i] # 0
  /\ r.li[r.liOf[i]] = [item |-> i, attached |-> TRUE, selected |-> r.selected[i],
                        hidden |-> r.li[r.liOf[i]].hidden, value |-> r.value[i],
                        disabled |-> r.disabled[i], content |-> i]
  /\ r.no[r.noOf[i]] = [item |-> i, attached |-> TRUE, selected |-> r.selected[i],
                        value |-> r.value[i], disabled |-> r.disabled[i],
                        defaultSelected |-> r.no[r.noOf[i]].defaultSelected,
                        content |-> i]
  /\ (r.multiple /\ r.selected[i]) => (r.tagOf[i] /\ i \in Range(r.taglist))

\* the children that have neither a popup-list entry nor a native option yet
LackingViews == {i \in Range(items) : liOf[i] = 0 /\ noOf[i] = 0}

\* C18: when an item without a popup-list entry and a native option is selected or
\* deselected, the entries exist once the handler returns, linked with the item
\* and carrying its value, content, disabled and selected fields; in multiple mode
\* a selected item also has its tag in the tag list.
C18_MissingViewsAreBuilt ==
  \A i \in LackingViews :
    /\ ~ItemSelectRun(i).threw /\ ViewsBuilt(ItemSelectRun(i), i)
    /\ selected[i] => (~ItemDeselectRun(i).threw /\ ViewsBuilt(ItemDeselectRun(i), i))

\* C18 witness: multiple mode, the second of two children that the collection has
\* not reported is selected and receives its entries and a tag
C18_Witness ==
  /\ multiple /\ Len(items) = 2 /\ items[2] \in LackingViews /\ ~selected[items[2]]
  /\ taglist = <<>>
  /\ ItemSelectRun(items[2]).taglist = <<items[2]>>
  /\ ViewsBuilt(ItemSelectRun(items[2]), items[2])

\* a script selects option o of the native control and dispatches the change
\* event: dispatchEvent is synchronous, so that the event is handled although the
\* collection may not have reported every child
NativeDispatchEnabled(o) ==
  /\ useNative
  /\ no[o].attached /\ ~no[o].disabled
  /\ multiple \/ ~no[o].selected

NativeDispatch(o) ==
  /\ NativeDispatchEnabled(o)
  /\ Install(NativePickRun(o))

\* the component as the parser and scripts build it, with change events of the
\* native control that arrive before the collection has reported every child
NextDispatch ==
  \/ \E i \in Ids, sel \in BOOLEAN : AppendChild(i, sel)
  \/ CollectionChange
  \/ FirstConnect
  \/ \E i \in Ids : ItemSelect(i)
  \/ \E i \in Ids : ItemDeselect(i)
  \/ \E o \in EntryIds : NativeDispatch(o)

SpecDispatch == InitMarkup /\ [][NextDispatch]_vars

\* C19 as stated: no handler of an origin event raises an error, whatever the
\* state of the items, selected items without a native option or a popup-list
\* entry included.
C19_NoPassThrows ==
  /\ \A r \in ItemRuns : ~r.threw
  /\ \A o \in EntryIds : NativeDispatchEnabled(o) => ~NativePickRun(o).threw

\* in the outcome r of a handler item i has no popup-list entry, no native option
\* and no tag, and no entry, option or tag refers to it
ViewsGone(r, i) ==
  /\ r.liOf[i] = 0 /\ r.noOf[i] = 0 /\ ~r.tagOf[i]
  /\ i \notin Range(r.taglist)
  /\ \A e \in EntryIds : r.li[e].item # i /\ r.no[e].item # i

\* C20: when an item is removed from the collection, its popup-list entry, its
\* native option and its tag leave their views and the links are cleared in both
\* directions.
C20_RemovedItemHasNoViews == \A i \in Range(items) : ViewsGone(RemoveItemRun(i), i)

\* C20 witness: multiple mode; an item that is selected and has an entry, an
\* option and a tag is removed
C20_Witness ==
  /\ multiple /\ Len(items) = 2
  /\ \E i \in Range(items) :
       /\ selected[i] /\ liOf[i] # 0 /\ noOf[i] # 0 /\ tagOf[i] /\ i \in Range(taglist)
       /\ ViewsGone(RemoveItemRun(i), i)

\* C21: the items and their view entries are linked one to one: the entry that an
\* item references refers back to the item, an entry that refers to an item is the
\* one the item references (so an item has at most one entry of each view), and
\* no two items reference the same entry.
C21_ViewsOneToOne ==
  /\ \A i \in Ids : /\ liOf[i] # 0 => li[liOf[i]].item = i
                    /\ noOf[i] # 0 => no[noOf[i]].item = i
  /\ \A e \in EntryIds : /\ li[e].item # 0 => liOf[li[e].item] = e
                         /\ no[e].item # 0 => noOf[no[e].item] = e
  /\ \A i, j \in Ids : i # j => /\ liOf[i] # 0 => liOf[i] # liOf[j]
                                /\ noOf[i] # 0 => noOf[i] # noOf[j]

\* C21 witness: a child received its entries when it was selected, before the
\* collection has reported it; the report runs _onItemAdded for it again and the
\* item keeps the same entries
C21_Witness ==
  /\ Len(items) = 2
  /\ \E i \in Range(items) \ handled :
       /\ liOf[i] # 0 /\ noOf[i] # 0
       /\ CollectionChangeRun.liOf[i] = liOf[i]
       /\ CollectionChangeRun.noOf[i] = noOf[i]

\* C22 as stated: in single-selection mode, once an operation has settled, value
\* is the value of the selected item, and the empty string when no item is
\* selected.
C22_ValueReflectsSelection ==
  (Settled /\ ~multiple) =>
    getValue(Fresh) = IF selectedItem(Fresh) # 0 THEN value[selectedItem(Fresh)] ELSE ""

\* no item of the collection has the empty string as its value
NoEmptyValue == \A i \in Range(items) : value[i] # ""

\* C23 as stated: provided no item has the empty value, after clear() value reads
\* as the empty string and values is empty, in single and in multiple mode.
C23_ClearEmptiesValue ==
  NoEmptyValue => (getValue(clear(Fresh)) = "" /\ getValues(clear(Fresh)) = <<>>)

\* C23, amended: provided no item has the empty value, after clear() value reads
\* as the empty string and values is empty in multiple mode, and in single mode
\* when a placeholder is set or no item is selectable; in single mode without a
\* placeholder the first selectable item is the selected one and value and values
\* read its value.
C23_ClearEmptiesOrSelectsFirst ==
  NoEmptyValue =>
    IF ~multiple /\ placeholder = "" /\ getFirstSelectable(Fresh) # 0
    THEN /\ getAllSelected(clear(Fresh)) = <<getFirstSelectable(Fresh)>>
         /\ getValue(clear(Fresh)) = value[getFirstSelectable(Fresh)]
         /\ getValues(clear(Fresh)) = <<value[getFirstSelectable(Fresh)]>>
    ELSE /\ getAllSelected(clear(Fresh)) = <<>>
         /\ getValue(clear(Fresh)) = ""
         /\ getValues(clear(Fresh)) = <<>>

\* C23 witness: single mode without placeholder, the second of two items is
\* selected, and clear() leaves the first one selected
C23_Witness ==
  /\ NoEmptyValue /\ ~multiple /\ placeholder = "" /\ Len(items) = 2
  /\ ~disabled[items[1]] /\ selected[items[2]]
  /\ getAllSelected(clear(Fresh)) = <<items[1]>>

\* C24 as stated: when multiple is false, values is an array of length 1 in every
\* reachable state.
C24_SingleValuesHasLengthOne == ~multiple => Len(getValues(Fresh)) = 1

\* the outcome r of a handler that a user event started, with a listener of
\* coral-select:showitems that prevents the default or not: a notification that
\* was fired is the only one, carries the number of items, and off the native
\* control the loading indicator is on exactly when the default was prevented
ShowsFollow(r, prevented) ==
  r.shows # <<>> =>
    /\ r.shows = <<[start |-> Len(items), prevented |-> prevented]>>
    /\ ~useNative => (r.loading <=> prevented)
    /\ useNative => (r.loading <=> loading)

\* C25: every coral-select:showitems notification carries as start the number of
\* items of the collection, and it is cancelable: when the native control is not
\* in use, the loading indicator of the list is on after the notification exactly
\* when a listener prevented the default.
C25_ShowItemsCarriesCount ==
  \A prevented \in BOOLEAN :
    /\ (Settled /\ ~useNative) =>
         \A nearBottom \in BOOLEAN : ShowsFollow(ButtonClickRun(nearBottom, prevented), prevented)
    /\ (Settled /\ overlayOpen) => ShowsFollow(ScrollBottomRun(prevented), prevented)
    /\ (Settled /\ useNative) => ShowsFollow(NativeSelectClickRun(prevented), prevented)

\* C25 witness: two items, the overlay is closed and the indicator off; the button
\* is clicked and a listener prevents the default
C25_Witness ==
  /\ Settled /\ ~useNative /\ ~overlayOpen /\ ~loading /\ Len(items) = 2
  /\ ButtonClickRun(TRUE, TRUE).shows = <<[start |-> 2, prevented |-> TRUE]>>
  /\ ButtonClickRun(TRUE, TRUE).loading

\* the runs in which the Select may close the overlay: the button, a click in the
\* document, a pick in the popup list, and a list change with unchanged selection
OverlayRuns ==
  ListRuns
    \cup {ButtonClickRun(n, p) : n \in {x \in BOOLEAN : Settled /\ ~useNative}, p \in BOOLEAN}
    \cup {GlobalClickRun(o) : o \in {x \in BOOLEAN : Settled /\ overlayOpen}}
    \cup {onSelectListChange(Fresh, ListSelection(Fresh), ListSelection(Fresh), TRUE) :
            x \in {y \in {TRUE} : Settled}}

\* C26 as stated: every transition of the overlay from open to closed that the
\* Select makes (button, outside click, list change, choice of the already
\* selected item) comes with exactly one coral-select:hideitems notification.
C26_CloseNotifiesOnce ==
  \A r \in OverlayRuns : (overlayOpen /\ ~r.overlayOpen) => r.hides = 1

\* ------------------------------------------------------------ Coral.commons
\* The utilities are called on their own: the Select stays as constructed.
SelectUntouched ==
  HoldsSelect(Constructed([i \in Ids |-> FALSE], [i \in Ids |-> ""], FALSE))

\* --------------------------------------------------- _applyMixin and mixin
MaxMixins == 2

\* the mixins: two functions, two objects, and values of unsupported types
Mixins == {"f", "g", "A", "B", "null", "undefined", "number"}

\* typeof mixin
TypeOf(m) ==
  IF m \in {"f", "g"} THEN "function"
  ELSE IF m \in {"A", "B", "null"} THEN "object"
  ELSE m

Props == {"x", "y"}

\* the enumerable properties of the object mixins (0: the property is absent)
Source(m) ==
  IF m = "A" THEN [p \in Props |-> IF p = "x" THEN 1 ELSE 0]
  ELSE IF m = "B" THEN [p \in Props |-> IF p = "x" THEN 2 ELSE 1]
  ELSE [p \in Props |-> 0]

\* extend(dest, source): every property of source is assigned to dest
extend(dest, m) == [p \in Props |-> IF Source(m)[p] # 0 THEN Source(m)[p] ELSE dest[p]]

\* a faulty variant, for comparison: null passes as an object
applyMixin_NullIsObject(c, m) ==
  IF TypeOf(m) = "function"
  THEN [c EXCEPT !.calls = Append(@, [fn |-> m, target |-> "target", options |-> c.options])]
  ELSE IF TypeOf(m) = "object"
  THEN [c EXCEPT !.target = extend(@, m)]
  ELSE [c EXCEPT !.threw = TRUE]

\* _applyMixin(target, mixin, options)
applyMixin(c, m) ==
  IF TypeOf(m) = "function"
  THEN [c EXCEPT !.calls = Append(@, [fn |-> m, target |-> "target", options |-> c.options])]
  ELSE IF TypeOf(m) = "object" /\ m # "null"
  THEN [c EXCEPT !.target = extend(@, m)]
  ELSE [c EXCEPT !.threw = TRUE]

\* mixin(target, mixins, options): the loop over an array of mixins, which an
\* error leaves
RECURSIVE applyEach(_, _)
applyEach(c, seq) ==
  IF seq = <<>> \/ c.threw THEN c ELSE applyEach(applyMixin(c, Head(seq)), Tail(seq))

\* mixin(target, mixins, options)
mixin(c) == IF c.isArray THEN applyEach(c, c.mixins) ELSE applyMixin(c, c.mixins[1])

\* the arguments of a call of mixin: mixins is an array or one mixin
MixinCalls ==
  {[op |-> "mixin", returned |-> FALSE, isArray |-> a, mixins |-> ms, options |-> o,
    target0 |-> t, target |-> t, calls |-> <<>>, threw |-> FALSE] :
     a \in BOOLEAN, ms \in UNION {[1..n -> Mixins] : n \in 0..MaxMixins},
     o \in {"options", "undefined"}, t \in [Props -> {0, 3}]}

InitMixin ==
  /\ SelectUntouched
  /\ commons \in {c \in MixinCalls : c.isArray \/ Len(c.mixins) = 1}

\* the call runs until it returns or raises
MixinCall ==
  /\ commons.op = "mixin" /\ ~commons.returned
  /\ commons' = [mixin(commons) EXCEPT !.returned = TRUE]
  /\ UNCHANGED selectVars

NextMixin == MixinCall

SpecMixin == InitMixin /\ [][NextMixin]_vars

\* the mixins of the call that come before the first one of an unsupported type
RECURSIVE Supported(_)
Supported(seq) ==
  IF seq = <<>> THEN <<>>
  ELSE IF Head(seq) \in {"f", "g", "A", "B"} THEN <<Head(seq)>> \o Supported(Tail(seq))
  ELSE <<>>

\* the properties of the target after the object mixins of seq, in order
RECURSIVE Copied(_, _)
Copied(t, seq) ==
  IF seq = <<>> THEN t
  ELSE Copied([p \in Props |-> IF Head(seq) = "A" /\ p = "x" THEN 1
                               ELSE IF Head(seq) = "B" /\ p = "x" THEN 2
                               ELSE IF Head(seq) = "B" /\ p = "y" THEN 1
                               ELSE t[p]], Tail(seq))

\* C27: a mixin of an unsupported type (neither a function nor a non-null object)
\* makes the call raise, and nothing is applied after it; every function mixin
\* before it is called once with (target, options), and the properties of every
\* object mixin before it are copied to the target.
C27_MixinAppliesOrRaises ==
  (commons.op = "mixin" /\ commons.returned) =>
    /\ commons.threw <=> Supported(commons.mixins) # commons.mixins
    /\ commons.calls =
         [k \in 1..Len(SeqFilter(Supported(commons.mixins), {"f", "g"})) |->
            [fn |-> SeqFilter(Supported(commons.mixins), {"f", "g"})[k],
             target |-> "target", options |-> commons.options]]
    /\ commons.target = Copied(commons.target0, Supported(commons.mixins))

\* C27 witness: an array of a function and null: the function was called, then
\* the call raised
C27_Witness ==
  /\ commons.op = "mixin" /\ commons.returned /\ commons.isArray
  /\ commons.mixins = <<"f", "null">>
  /\ commons.threw /\ Len(commons.calls) = 1

\* ---------------------------------------- setSubProperty and getSubProperty
MaxPathLen == 3

Keys == {"a", "b"}

\* path.split('.'): the paths of up to MaxPathLen parts
Paths == UNION {[1..n -> Keys] : n \in 1..MaxPathLen}

\* what a property holds: nothing (undefined), null, a falsy primitive, a truthy
\* primitive or an object
Kinds == {"undefined", "null", "zero", "one", "object"}

\* A root object is given by what each path holds; a path below a property that
\* holds no object holds nothing.  The root objects have objects two levels deep.
MakeRoot(top, sub) ==
  [q \in Paths |->
     IF Len(q) = 1 THEN top[q[1]]
     ELSE IF Len(q) = 2 /\ top[q[1]] = "object" THEN sub[q[1]][q[2]]
     ELSE "undefined"]

Roots == {MakeRoot(top, sub) : top \in [Keys -> Kinds], sub \in [Keys -> [Keys -> Kinds]]}

\* curObj: the root (at = <<>>), the object at a path, or a value that is no object
RootObj == [k |-> "object", at |-> <<>>]

\* curObj[part]; property access on null and undefined is a TypeError, a primitive
\* has no such property
Member(root, cur, part) ==
  IF cur.k \in {"null", "undefined"} THEN [k |-> "TypeError", at |-> <<>>]
  ELSE IF cur.k = "object" /\ Len(cur.at) < MaxPathLen
  THEN [k |-> root[Append(cur.at, part)], at |-> Append(cur.at, part)]
  ELSE [k |-> "undefined", at |-> <<>>]

\* curObj[part] = obj, in strict mode: the property and what was below it is
\* replaced; the assignment to a property of a primitive is a TypeError
IsPrefix(p, q) == Len(p) <= Len(q) /\ \A k \in 1..Len(p) : p[k] = q[k]

\* a faulty variant, for comparison: the assignment is made on the root itself
Assigned_AtRoot(c, cur, part, obj) ==
  IF cur.k # "object" THEN [c EXCEPT !.threw = TRUE]
  ELSE [c EXCEPT !.root = [q \in Paths |->
                             IF q = <<part>> THEN obj
                             ELSE IF IsPrefix(<<part>>, q) THEN "undefined"
                             ELSE c.root[q]]]

Assigned(c, cur, part, obj) ==
  IF cur.k # "object" THEN [c EXCEPT !.threw = TRUE]
  ELSE [c EXCEPT !.root = [q \in Paths |->
                             IF q = Append(cur.at, part) THEN obj
                             ELSE IF IsPrefix(Append(cur.at, part), q) THEN "undefined"
                             ELSE c.root[q]]]

\* a faulty variant, for comparison: the parts that are not found are created
RECURSIVE setWalk_Creates(_, _, _)
setWalk_Creates(c, cur, parts) ==
  IF Len(parts) = 1 THEN Assigned(c, cur, parts[1], c.obj)
  ELSE IF Member(c.root, cur, Head(parts)).k \in {"one", "object"}
  THEN setWalk_Creates(c, Member(c.root, cur, Head(parts)), Tail(parts))
  ELSE IF cur.k = "object"
  THEN setWalk_Creates(Assigned(c, cur, Head(parts), "object"),
                       [k |-> "object", at |-> Append(cur.at, Head(parts))], Tail(parts))
  ELSE [c EXCEPT !.threw = TRUE]

\* setSubProperty: the loop over the parts but the last, then the assignment
RECURSIVE setWalk(_, _, _)
setWalk(c, cur, parts) ==
  IF Len(parts) = 1 THEN Assigned(c, cur, parts[1], c.obj)
  ELSE IF Member(c.root, cur, Head(parts)).k \in {"one", "object"}
  THEN setWalk(c, Member(c.root, cur, Head(parts)), Tail(parts))
  ELSE [c EXCEPT !.threw = TRUE]

\* setSubProperty(root, path, obj)
setSubProperty(c) ==
  IF Len(c.path) = 1 THEN Assigned(c, RootObj, c.path[1], c.obj)
  ELSE setWalk(c, RootObj, c.path)

\* getSubProperty: the loop over the parts
RECURSIVE getWalk(_, _, _)
getWalk(c, cur, parts) ==
  IF parts = <<>> THEN [c EXCEPT !.result = cur.k]
  ELSE IF Member(c.root, cur, Head(parts)).k = "TypeError" THEN [c EXCEPT !.threw = TRUE]
  ELSE IF Len(parts) = 1 \/ Member(c.root, cur, Head(parts)).k # "undefined"
  THEN getWalk(c, Member(c.root, cur, Head(parts)), Tail(parts))
  ELSE [c EXCEPT !.threw = TRUE]

\* getSubProperty(root, path)
getSubProperty(c) ==
  IF Len(c.path) = 1 THEN [c EXCEPT !.result = c.root[c.path]]
  ELSE getWalk(c, RootObj, c.path)

\* the arguments of a call of one of the two
SubPropertyCalls ==
  {[op |-> o, returned |-> FALSE, root0 |-> r, root |-> r, path |-> q, obj |-> "one",
    result |-> "undefined", threw |-> FALSE] :
     o \in {"get", "set"}, r \in Roots, q \in Paths}

InitSubProperty == SelectUntouched /\ commons \in SubPropertyCalls

GetCall ==
  /\ commons.op = "get" /\ ~commons.returned
  /\ commons' = [getSubProperty(commons) EXCEPT !.returned = TRUE]
  /\ UNCHANGED selectVars

SetCall ==
  /\ commons.op = "set" /\ ~commons.returned
  /\ commons' = [setSubProperty(commons) EXCEPT !.returned = TRUE]
  /\ UNCHANGED selectVars

NextSubProperty == GetCall \/ SetCall

SpecSubProperty == InitSubProperty /\ [][NextSubProperty]_vars

\* the call has returned or raised
SubPropertyDone == commons.op \in {"get", "set"} /\ commons.returned

\* an intermediate part of the path does not exist on the root the call was given /
\* every intermediate part is an object
PartMissing ==
  \E n \in 1..(Len(commons.path) - 1) : commons.root0[SubSeq(commons.path, 1, n)] = "undefined"

PartsAreObjects ==
  \A n \in 1..(Len(commons.path) - 1) : commons.root0[SubSeq(commons.path, 1, n)] = "object"

\* C28 as stated: both raise when an intermediate part of the path does not exist,
\* setSubProperty leaves the root unchanged when it raises, and neither raises
\* when every intermediate part exists.
C28_RaisesIffPartMissing ==
  SubPropertyDone =>
    /\ commons.threw <=> PartMissing
    /\ commons.threw => commons.root = commons.root0

\* C28, amended: both raise when an intermediate part of the path does not exist,
\* setSubProperty leaves the root unchanged when it raises, and neither raises
\* when every intermediate part is an object.
C28_RaisesWhenPartMissing ==
  SubPropertyDone =>
    /\ PartMissing => commons.threw
    /\ commons.threw => commons.root = commons.root0
    /\ PartsAreObjects => ~commons.threw

\* C28 witness: setSubProperty with a path of three parts whose second part does
\* not exist has raised
C28_Witness ==
  /\ SubPropertyDone /\ commons.op = "set" /\ commons.path = <<"a", "b", "a">>
  /\ commons.root0[<<"a">>] = "object" /\ commons.root0[<<"a", "b">>] = "undefined"
  /\ commons.threw /\ commons.root = commons.root0

\* setSubProperty(root, path, obj) and, when it has returned, getSubProperty(root, path)
setThenGet(c) ==
  Let(setSubProperty(c), LAMBDA c1 :
  IF c1.threw THEN c1 ELSE [getSubProperty(c1) EXCEPT !.got = TRUE])

RoundTripCalls ==
  {[op |-> "setget", returned |-> FALSE, root0 |-> r, root |-> r, path |-> q, obj |-> o,
    result |-> "undefined", threw |-> FALSE, got |-> FALSE] :
     r \in Roots, q \in Paths, o \in Kinds}

InitRoundTrip == SelectUntouched /\ commons \in RoundTripCalls

SetGetCall ==
  /\ commons.op = "setget" /\ ~commons.returned
  /\ commons' = [setThenGet(commons) EXCEPT !.returned = TRUE]
  /\ UNCHANGED selectVars

NextRoundTrip == SetGetCall

SpecRoundTrip == InitRoundTrip /\ [][NextRoundTrip]_vars

\* C38: when setSubProperty(root, path, obj) has returned, getSubProperty(root, path)
\* returns obj, and what root holds outside the path is what it held before.
C38_SetThenGetReturnsObj ==
  (commons.op = "setget" /\ commons.returned /\ commons.got) =>
    /\ ~commons.threw
    /\ commons.result = commons.obj
    /\ \A q \in Paths : ~IsPrefix(commons.path, q) => commons.root[q] = commons.root0[q]

\* C38 witness: an object was set at a nested path that held a value with
\* properties of its own, next to a sibling, and read back
C38_Witness ==
  /\ commons.op = "setget" /\ commons.returned /\ commons.got
  /\ commons.path = <<"a", "b">> /\ commons.obj = "null"
  /\ commons.root0[<<"a", "b">>] = "one" /\ commons.root0[<<"a", "a">>] = "zero"
  /\ commons.result = "null" /\ commons.root[<<"a", "a">>] = "zero"

\* C32: a scroll-bottom notification handled while the overlay is closed neither
\* opens the overlay nor fires showitems; handled while the overlay is open it
\* fires showitems once.
C32_ScrollBottomOnlyWhileOpen ==
  Settled =>
    \A prevented \in BOOLEAN :
      /\ ~overlayOpen => /\ ~ScrollBottomRun(prevented).overlayOpen
                         /\ ScrollBottomRun(prevented).shows = <<>>
      /\ overlayOpen => Len(ScrollBottomRun(prevented).shows) = 1

\* C32 witness: the overlay was opened and closed again (the loading indicator of
\* the list is still on), and the notification is handled without effect
C32_Witness ==
  /\ Settled /\ ~useNative /\ ~overlayOpen /\ loading
  /\ ScrollBottomRun(TRUE).shows = <<>>
  /\ HoldsSelect(ScrollBottomRun(TRUE))

\* C33 as stated: whenever no handler of the Select is executing, after a handler
\* has returned or raised, the flag _bulkSelectionChange is false.
C33_BulkFlagClearBetweenHandlers == ~bulk

\* the runs of the programmatic selection changes in the current state
ProgrammaticRuns ==
  {AssignValuesRun(vs) : vs \in ValueLists}
    \cup {setValue(Fresh, v) : v \in Vals}
    \cup {ResetRun, clear(Fresh)}
    \cup ItemRuns
    \cup {setMultiple(Fresh, v) : v \in BOOLEAN}

\* C34: a programmatic selection change (values, value, reset, clear, the selected
\* attribute of an item, multiple) fires no change notification, and a pick in the
\* popup list fires one only when the overlay was open and an item entered the
\* selection.
C34_ChangeOnlyFromUser ==
  /\ \A r \in ProgrammaticRuns : r.changes = 0
  /\ \A r \in ListRuns :
       r.changes > 0 =>
         /\ overlayOpen
         /\ \E i \in Range(items) : ~selected[i] /\ r.selected[i]

\* C34 witness: the overlay is open, an item is selected, and a script can select
\* another one while the user can pick one as well
C34_Witness ==
  /\ overlayOpen /\ Settled
  /\ \E i \in Range(items) : ~selected[i] /\ ItemSelectRun(i).selected[i]
  /\ \E r \in ListRuns : r.changes = 1

\* C35: once the operations have settled, in multi-selection mode the popup-list
\* entry of an item is hidden exactly when the item is selected, and in
\* single-selection mode no entry of the popup list is hidden.
C35_HiddenIffSelectedInMultiple ==
  Settled =>
    /\ multiple => \A i \in Range(items) :
                     liOf[i] # 0 => (li[liOf[i]].hidden <=> selected[i])
    /\ ~multiple => \A e \in EntryIds : li[e].attached => ~li[e].hidden

\* C35 witness: in multi-selection mode one item is selected, with its entry
\* hidden, and another one is not, with its entry shown
C35_Witness ==
  /\ Settled /\ multiple
  /\ \E i, j \in Range(items) :
       /\ selected[i] /\ liOf[i] # 0 /\ li[liOf[i]].hidden
       /\ ~selected[j] /\ liOf[j] # 0 /\ li[liOf[j]].attached /\ ~li[liOf[j]].hidden

\* C36: set multiple from true to false with several items selected leaves the
\* last selected item of the collection as the only selected one, with no tag in
\* the tag list and its value in the input; from false to true the selected
\* item stays selected and gets a tag.
C36_ModeSwitchKeepsLast ==
  /\ (multiple /\ Len(getAllSelected(Fresh)) >= 2) =>
       /\ getAllSelected(setMultiple(Fresh, FALSE)) = <<getLastSelected(Fresh)>>
       /\ setMultiple(Fresh, FALSE).taglist = <<>>
       /\ setMultiple(Fresh, FALSE).input = value[getLastSelected(Fresh)]
  /\ (~multiple /\ Len(getAllSelected(Fresh)) = 1) =>
       /\ getAllSelected(setMultiple(Fresh, TRUE)) = getAllSelected(Fresh)
       /\ getFirstSelected(Fresh) \in Range(setMultiple(Fresh, TRUE).taglist)

\* C36 witness: two items with different values are selected and tagged in
\* multi-selection mode, and the switch to single-selection mode deselects the
\* first of them
C36_Witness ==
  /\ multiple /\ Len(getAllSelected(Fresh)) >= 2 /\ Len(taglist) >= 2
  /\ value[getFirstSelected(Fresh)] # value[getLastSelected(Fresh)]
  /\ ~setMultiple(Fresh, FALSE).selected[getFirstSelected(Fresh)]
  /\ ~setMultiple(Fresh, FALSE).multiple

\* C37: while the Select is disabled, a click on the button and a press of the
\* space or down key leave the overlay as it is and fire neither showitems nor
\* hideitems; while the native control is in use no click on the button opens
\* the overlay.
C37_DisabledIgnoresButtonAndKeys ==
  Settled =>
    \A nearBottom, prevented \in BOOLEAN :
      /\ selectDisabled =>
           \A r \in {ButtonClickRun(nearBottom, prevented)}
                    \cup {SpaceKeyRun(key, nearBottom, prevented) : key \in {"space", "down"}} :
             r.overlayOpen = overlayOpen /\ r.shows = <<>> /\ r.hides = 0
      /\ useNative => ~ButtonClickRun(nearBottom, prevented).overlayOpen

\* C37 witness: the Select was disabled while its overlay was open, and the click
\* on the button does not close it
C37_Witness ==
  /\ Settled /\ selectDisabled /\ overlayOpen /\ ~useNative
  /\ ButtonClickRun(TRUE, FALSE).overlayOpen
  /\ SpaceKeyRun("space", TRUE, FALSE).hides = 0

\* ------------------------------------------------------------ transitionEnd
\* Calls of transitionEnd, each with its own closure (hasTransitionEnded,
\* transitionEndTimeout), on elements that may or may not have a transition.  The
\* browser knows the transition property, so that transitionEndEventName is found.
NCalls == 2

MaxEvents == 2

Calls == 1..NCalls

Elements == {"e1", "e2"}

\* a call that has not been made
NotCalled ==
  [called |-> FALSE, element |-> "e1", listener |-> FALSE, timer |-> "none",
   hasTransitionEnded |-> FALSE, callbacks |-> <<>>]

\* a faulty variant, for comparison: the closure forgets that it has run and
\* keeps its listener
onTransitionEnd_Again(c, k, event) ==
  [c EXCEPT !.call[k].timer = IF event = "undefined" THEN "fired" ELSE "cleared",
            !.call[k].callbacks =
               Append(@, [transitionStoppedByTimeout |-> (event = "undefined")])]

\* onTransitionEnd(event) of call k; event is "undefined" when the timer calls it
onTransitionEnd(c, k, event) ==
  IF ~c.call[k].hasTransitionEnded
  THEN [c EXCEPT !.call[k].hasTransitionEnded = TRUE,
                 !.call[k].timer = IF event = "undefined" THEN "fired" ELSE "cleared",
                 !.call[k].listener = FALSE,
                 !.call[k].callbacks =
                    Append(@, [transitionStoppedByTimeout |-> (event = "undefined")])]
  ELSE [c EXCEPT !.call[k].timer = IF event = "undefined" THEN "fired" ELSE @]

\* a faulty variant, for comparison: no timer besides the listener
transitionEnd_NoFallback(c, k, el) ==
  [c EXCEPT !.call[k] = [called |-> TRUE, element |-> el,
                         listener |-> c.hasTransition[el],
                         timer |-> IF c.hasTransition[el] THEN "none" ELSE "pending",
                         hasTransitionEnded |-> FALSE, callbacks |-> <<>>]]

\* transitionEnd(element, onTransitionEndCallback): the listener is registered
\* when the element has a transition, the timer is started in every case
transitionEnd(c, k, el) ==
  [c EXCEPT !.call[k] = [called |-> TRUE, element |-> el,
                         listener |-> c.hasTransition[el], timer |-> "pending",
                         hasTransitionEnded |-> FALSE, callbacks |-> <<>>]]

\* the browser dispatches the event to the listeners registered on the element
RECURSIVE dispatchTransitionEnd(_, _, _)
dispatchTransitionEnd(c, ks, el) ==
  IF ks = <<>> THEN c
  ELSE dispatchTransitionEnd(
         IF c.call[Head(ks)].listener /\ c.call[Head(ks)].element = el
         THEN onTransitionEnd(c, Head(ks), "event") ELSE c,
         Tail(ks), el)

InitTransition ==
  /\ SelectUntouched
  /\ commons \in {[op |-> "transition", hasTransition |-> h,
                   events |-> [el \in Elements |-> IF h[el] THEN MaxEvents ELSE 0],
                   call |-> [k \in Calls |-> NotCalled]] : h \in [Elements -> BOOLEAN]}

\* a script calls transitionEnd
TransitionEndCall(k, el) ==
  /\ commons.op = "transition" /\ ~commons.call[k].called
  /\ commons' = transitionEnd(commons, k, el)
  /\ UNCHANGED selectVars

\* a transition of the element ends
TransitionEndEvent(el) ==
  /\ commons.op = "transition" /\ commons.events[el] > 0
  /\ commons' = dispatchTransitionEnd([commons EXCEPT !.events[el] = @ - 1],
                                      SetToSeq(Calls), el)
  /\ UNCHANGED selectVars

\* the timer of call k expires
TimerFires(k) ==
  /\ commons.op = "transition" /\ commons.call[k].timer = "pending"
  /\ commons' = onTransitionEnd(commons, k, "undefined")
  /\ UNCHANGED selectVars

NextTransition ==
  \/ \E k \in Calls, el \in Elements : TransitionEndCall(k, el)
  \/ \E el \in Elements : TransitionEndEvent(el)
  \/ \E k \in Calls : TimerFires(k)

SpecTransition == InitTransition /\ [][NextTransition]_vars

\* the host runs the callback of a timer that has expired
SpecTransitionFair == SpecTransition /\ \A k \in Calls : WF_vars(TimerFires(k))

\* C29: for one call of transitionEnd the callback is executed at most once,
\* whatever the order of the transition-end events and the timer.
C29_CallbackAtMostOnce ==
  commons.op = "transition" => \A k \in Calls : Len(commons.call[k].callbacks) <= 1

\* C29 witness: the callback of a call ran for the first event, and the second
\* event of its element has arrived as well
C29_Witness ==
  /\ commons.op = "transition"
  /\ \E k \in Calls :
       /\ commons.call[k].called /\ commons.events[commons.call[k].element] = 0
       /\ commons.call[k].timer = "cleared"
       /\ commons.call[k].callbacks = <<[transitionStoppedByTimeout |-> FALSE]>>

\* the callback of call k has been executed
Executed(k) == commons.op = "transition" /\ commons.call[k].callbacks # <<>>

MaxArgs == 3

Val(t, v) == [t |-> t, v |-> v]

Funcs == {Val("function", 1), Val("function", 2)}

Undefined == Val("undefined", 0)

Null == Val("null", 0)

isFunction(a) == a.t = "function"

ArgLists ==
  UNION {{fs \o tl : fs \in [1..n -> Funcs \cup {Null}],
                     tl \in {<<>>} \cup {<<Val("number", k)>> : k \in 0..MaxArgs}}
           : n \in 0..MaxArgs}

\* args[i] of JavaScript (zero-based), undefined beyond either end
ArgAt(args, i) == IF i >= 0 /\ i + 1 <= Len(args) THEN args[i + 1] ELSE Undefined

\* the value a function returns
ReturnOf(f) == Val("returned", f.v)

\* the last return value of funcToReturn in the loop over functions
RECURSIVE finalRet(_, _, _)
finalRet(functions, funcToReturn, ret) ==
  IF functions = <<>> THEN ret
  ELSE finalRet(Tail(functions), funcToReturn,
                IF Head(functions) = funcToReturn THEN ReturnOf(Head(functions)) ELSE ret)

\* returnFirst(first, second), called
returnFirst(first, second) ==
  [calls |-> <<first, second>>, ret |-> ReturnOf(first)]

\* callAll(...args) and one call of the function it returns
callAll(args) ==
  LET last == ArgAt(args, Len(args) - 1)
      nth == IF last.t = "number" THEN last.v ELSE 0
      functions == SelectSeq(args, isFunction)
      funcToReturn == IF isFunction(ArgAt(args, nth)) THEN ArgAt(args, nth) ELSE functions[1]
  IN  IF Len(functions) = 2 /\ nth = 0 THEN returnFirst(functions[1], functions[2])
      ELSE IF Len(functions) = 1 THEN [calls |-> <<functions[1]>>, ret |-> ReturnOf(functions[1])]
      ELSE IF Len(functions) = 0 THEN [calls |-> <<>>, ret |-> Undefined]
      ELSE [calls |-> functions, ret |-> finalRet(functions, funcToReturn, Undefined)]

InitCallAll ==
  /\ SelectUntouched
  /\ commons \in {[op |-> "callAll", args |-> a, returned |-> FALSE,
                   calls |-> <<>>, ret |-> Undefined] : a \in ArgLists}

\* the aggregate function is built and called
CallAllCall ==
  /\ commons.op = "callAll" /\ ~commons.returned
  /\ commons' = [commons EXCEPT !.returned = TRUE,
                                !.calls = callAll(commons.args).calls,
                                !.ret = callAll(commons.args).ret]
  /\ UNCHANGED selectVars

NextCallAll == CallAllCall

SpecCallAll == InitCallAll /\ [][NextCallAll]_vars

\* the nth argument of the call (the first one without a trailing number)
NthArg(args) ==
  ArgAt(args, IF ArgAt(args, Len(args) - 1).t = "number"
              THEN ArgAt(args, Len(args) - 1).v ELSE 0)

\* C31: the function returned by callAll calls the provided functions in argument
\* order, each once, and returns the value of the nth argument, or null when the
\* nth argument is not a function.
C31_CallAllReturnsNth ==
  (commons.op = "callAll" /\ commons.returned) =>
     /\ commons.calls = SelectSeq(commons.args, isFunction)
     /\ commons.ret = IF isFunction(NthArg(commons.args))
                      THEN ReturnOf(NthArg(commons.args)) ELSE Null

====
